---- MODULE Spec2Model ----
(***************************************************************************)
(* Cmdly: an interactive line-oriented command interpreter.                *)
(*                                                                         *)
(* The model follows the pipeline of src/src/core: the Tokenizer turns a   *)
(* line of text into tokens, the Parser turns tokens into command chains,  *)
(* the Executor resolves and runs each chain against the commands package, *)
(* and the CLI loop reads lines until exit/quit or an interrupt.           *)
(*                                                                         *)
(* Text is a sequence of one-character strings.                            *)
(***************************************************************************)
EXTENDS Integers, Sequences, FiniteSets, TLC

(***************************************************************************)
(* Characters                                                              *)
(***************************************************************************)
LowerCase == <<"a","b","c","d","e","f","g","h","i","j","k","l","m",
               "n","o","p","q","r","s","t","u","v","w","x","y","z">>
UpperCase == <<"A","B","C","D","E","F","G","H","I","J","K","L","M",
               "N","O","P","Q","R","S","T","U","V","W","X","Y","Z">>
Digits == {"0","1","2","3","4","5","6","7","8","9"}

Range(s) == {s[i] : i \in DOMAIN s}

\* \s of the regular expressions, and what str.strip() removes.  input()
\* never returns a line terminator.
WhiteSpace == {" ", "\t"}
\* \w
WordChars == Range(LowerCase) \cup Range(UpperCase) \cup Digits \cup {"_"}
\* [a-zA-Z0-9_-]
CommandChars == WordChars \cup {"-"}

\* str.lower(), one character
LowerChar(c) ==
  IF \E i \in DOMAIN UpperCase : UpperCase[i] = c
    THEN LowerCase[CHOOSE i \in DOMAIN UpperCase : UpperCase[i] = c]
    ELSE c

\* str.lower()
Lower(s) == [i \in DOMAIN s |-> LowerChar(s[i])]

\* str.strip()
Strip(s) ==
  IF \A i \in DOMAIN s : s[i] \in WhiteSpace THEN <<>>
  ELSE LET first == CHOOSE i \in DOMAIN s :
                      s[i] \notin WhiteSpace /\ \A j \in 1..(i-1) : s[j] \in WhiteSpace
           last  == CHOOSE i \in DOMAIN s :
                      s[i] \notin WhiteSpace /\ \A j \in (i+1)..Len(s) : s[j] \in WhiteSpace
       IN SubSeq(s, first, last)

\* value[1:]: one dash is removed, whatever follows it
LStripOneDash(s) == SubSeq(s, 2, Len(s))

\* str.lstrip("-")
LStripDash(s) ==
  IF \A i \in DOMAIN s : s[i] = "-" THEN <<>>
  ELSE LET first == CHOOSE i \in DOMAIN s :
                      s[i] # "-" /\ \A j \in 1..(i-1) : s[j] = "-"
       IN SubSeq(s, first, Len(s))

\* "=" in s
HasEq(s) == \E i \in DOMAIN s : s[i] = "="

\* s.rsplit("=", 1): the split is at the last "="
EqPosLast(s) == CHOOSE i \in DOMAIN s : s[i] = "=" /\ \A j \in (i+1)..Len(s) : s[j] # "="

\* s.split("=", 1), for s that contains "="
EqPos(s) == CHOOSE i \in DOMAIN s : s[i] = "=" /\ \A j \in 1..(i-1) : s[j] # "="
SplitKey(s) == SubSeq(s, 1, EqPos(s) - 1)
SplitVal(s) == SubSeq(s, EqPos(s) + 1, Len(s))

(***************************************************************************)
(* Tokens (core_types/tokens.py)                                           *)
(***************************************************************************)
TokType == {"COMMAND", "STRING", "FLAG", "AND", "OR", "SEMI", "EOF",
            "WHITESPACE", "MISMATCH"}

Token(type, value) == [type |-> type, value |-> value]

EOFToken == Token("EOF", <<>>)

(***************************************************************************)
(* Tokenizer (tokenizer.py)                                                *)
(***************************************************************************)
\* Greedy run of characters of S from pos: the index after the run.
RunEnd(text, pos, S) ==
  IF \E i \in pos..Len(text) : text[i] \notin S
    THEN CHOOSE i \in pos..Len(text) :
           text[i] \notin S /\ \A j \in pos..(i-1) : text[j] \in S
    ELSE Len(text) + 1

\* The body of a quoted string from index i: the index of the closing quote
\* q, 0 when there is none.  A backslash takes the next character with it.
RECURSIVE QuoteClose(_, _, _)
QuoteClose(text, i, q) ==
  IF i > Len(text) THEN 0
  ELSE IF text[i] = q THEN i
  ELSE IF text[i] = "\\"
    THEN (IF i + 1 > Len(text) THEN 0 ELSE QuoteClose(text, i + 2, q))
  ELSE QuoteClose(text, i + 1, q)

\* --?\w+ at pos: the index after the match, 0 when it does not match.
FlagEnd(text, pos) ==
  IF text[pos] # "-" THEN 0
  ELSE IF pos + 2 <= Len(text) /\ text[pos+1] = "-" /\ text[pos+2] \in WordChars
    THEN RunEnd(text, pos + 2, WordChars)
  ELSE IF pos + 1 <= Len(text) /\ text[pos+1] \in WordChars
    THEN RunEnd(text, pos + 1, WordChars)
  ELSE 0

\* self.patterns with COMMAND listed before FLAG
MatchAtWordFirst(text, pos) ==
  LET c == text[pos]
      two(ch) == c = ch /\ pos + 1 <= Len(text) /\ text[pos+1] = ch
  IN
  IF c \in WhiteSpace
    THEN [type |-> "WHITESPACE", end |-> RunEnd(text, pos, WhiteSpace)]
  ELSE IF two("&") THEN [type |-> "AND", end |-> pos + 2]
  ELSE IF two("|") THEN [type |-> "OR", end |-> pos + 2]
  ELSE IF c = ";" THEN [type |-> "SEMI", end |-> pos + 1]
  ELSE IF c \in CommandChars
    THEN [type |-> "COMMAND", end |-> RunEnd(text, pos, CommandChars)]
  ELSE IF FlagEnd(text, pos) # 0
    THEN [type |-> "FLAG", end |-> FlagEnd(text, pos)]
  ELSE IF c = "\"" /\ QuoteClose(text, pos + 1, "\"") # 0
    THEN [type |-> "STRING", end |-> QuoteClose(text, pos + 1, "\"") + 1]
  ELSE IF c = "'" /\ QuoteClose(text, pos + 1, "'") # 0
    THEN [type |-> "STRING", end |-> QuoteClose(text, pos + 1, "'") + 1]
  ELSE [type |-> "MISMATCH", end |-> pos + 1]

\* master_pattern.match(text, pos): the first alternative, in the order of
\* self.patterns, that matches at pos (1-based); end is the index after it.
MatchAt(text, pos) ==
  LET c == text[pos]
      two(ch) == c = ch /\ pos + 1 <= Len(text) /\ text[pos+1] = ch
  IN
  IF c \in WhiteSpace
    THEN [type |-> "WHITESPACE", end |-> RunEnd(text, pos, WhiteSpace)]
  ELSE IF two("&") THEN [type |-> "AND", end |-> pos + 2]
  ELSE IF two("|") THEN [type |-> "OR", end |-> pos + 2]
  ELSE IF c = ";" THEN [type |-> "SEMI", end |-> pos + 1]
  ELSE IF FlagEnd(text, pos) # 0
    THEN [type |-> "FLAG", end |-> FlagEnd(text, pos)]
  ELSE IF c = "\"" /\ QuoteClose(text, pos + 1, "\"") # 0
    THEN [type |-> "STRING", end |-> QuoteClose(text, pos + 1, "\"") + 1]
  ELSE IF c = "'" /\ QuoteClose(text, pos + 1, "'") # 0
    THEN [type |-> "STRING", end |-> QuoteClose(text, pos + 1, "'") + 1]
  ELSE IF c \in CommandChars
    THEN [type |-> "COMMAND", end |-> RunEnd(text, pos, CommandChars)]
  ELSE [type |-> "MISMATCH", end |-> pos + 1]

\* The SyntaxError raised, by what its message names.
NoError == [kind |-> "none", char |-> "", pos |-> 0, type |-> ""]

\* SyntaxError(f"Unexpected character: {group!r} at position {pos}")
UnexpectedCharacter(char, pos) ==
  [kind |-> "lexical", char |-> char, pos |-> pos, type |-> ""]

\* SyntaxError(f"Expected command, got {self.current.type}")
ExpectedCommand(type) ==
  [kind |-> "syntax", char |-> "", pos |-> 0, type |-> type]

\* Tokenizer.tokenize, run to its end: the tokens yielded, and whether the
\* generator raised SyntaxError (error names the character and its
\* zero-based position).
\* tokenize without the final "yield Token(TokType.EOF, ...)"
RECURSIVE TokenizeFromNoEOF(_, _, _)
TokenizeFromNoEOF(text, pos, acc) ==
  IF pos > Len(text)
    THEN [ok |-> TRUE, toks |-> acc, error |-> NoError]
  ELSE
    LET m == MatchAt(text, pos) IN
    IF m.type = "WHITESPACE" THEN TokenizeFromNoEOF(text, m.end, acc)
    ELSE IF m.type = "MISMATCH"
      THEN [ok |-> FALSE, toks |-> acc, error |-> UnexpectedCharacter(text[pos], pos - 1)]
    ELSE IF m.type = "STRING"
      THEN TokenizeFromNoEOF(text, m.end,
             Append(acc, Token("STRING", SubSeq(text, pos + 1, m.end - 2))))
    ELSE TokenizeFromNoEOF(text, m.end,
             Append(acc, Token(m.type, SubSeq(text, pos, m.end - 1))))

\* tokenize without the "if tok_type == TokType.WHITESPACE" branch: blanks
\* are yielded like any other token
RECURSIVE TokenizeFromYieldsBlanks(_, _, _)
TokenizeFromYieldsBlanks(text, pos, acc) ==
  IF pos > Len(text)
    THEN [ok |-> TRUE, toks |-> Append(acc, EOFToken), error |-> NoError]
  ELSE
    LET m == MatchAt(text, pos) IN
    IF m.type = "MISMATCH"
      THEN [ok |-> FALSE, toks |-> acc, error |-> UnexpectedCharacter(text[pos], pos - 1)]
    ELSE IF m.type = "STRING"
      THEN TokenizeFromYieldsBlanks(text, m.end,
             Append(acc, Token("STRING", SubSeq(text, pos + 1, m.end - 2))))
    ELSE TokenizeFromYieldsBlanks(text, m.end,
             Append(acc, Token(m.type, SubSeq(text, pos, m.end - 1))))

\* tokenize without "group = group[1:-1]": a string token keeps its quotes
RECURSIVE TokenizeFromKeepsQuotes(_, _, _)
TokenizeFromKeepsQuotes(text, pos, acc) ==
  IF pos > Len(text)
    THEN [ok |-> TRUE, toks |-> Append(acc, EOFToken), error |-> NoError]
  ELSE
    LET m == MatchAt(text, pos) IN
    IF m.type = "WHITESPACE" THEN TokenizeFromKeepsQuotes(text, m.end, acc)
    ELSE IF m.type = "MISMATCH"
      THEN [ok |-> FALSE, toks |-> acc, error |-> UnexpectedCharacter(text[pos], pos - 1)]
    ELSE TokenizeFromKeepsQuotes(text, m.end,
             Append(acc, Token(m.type, SubSeq(text, pos, m.end - 1))))

\* tokenize that reports the position from one: pos + 1
RECURSIVE TokenizeFromOneBased(_, _, _)
TokenizeFromOneBased(text, pos, acc) ==
  IF pos > Len(text)
    THEN [ok |-> TRUE, toks |-> Append(acc, EOFToken), error |-> NoError]
  ELSE
    LET m == MatchAt(text, pos) IN
    IF m.type = "WHITESPACE" THEN TokenizeFromOneBased(text, m.end, acc)
    ELSE IF m.type = "MISMATCH"
      THEN [ok |-> FALSE, toks |-> acc, error |-> UnexpectedCharacter(text[pos], pos)]
    ELSE IF m.type = "STRING"
      THEN TokenizeFromOneBased(text, m.end,
             Append(acc, Token("STRING", SubSeq(text, pos + 1, m.end - 2))))
    ELSE TokenizeFromOneBased(text, m.end,
             Append(acc, Token(m.type, SubSeq(text, pos, m.end - 1))))

\* tokenize with "group = group[1:]": only the opening quote is removed
RECURSIVE TokenizeFromDropsFirstOnly(_, _, _)
TokenizeFromDropsFirstOnly(text, pos, acc) ==
  IF pos > Len(text)
    THEN [ok |-> TRUE, toks |-> Append(acc, EOFToken), error |-> NoError]
  ELSE
    LET m == MatchAt(text, pos) IN
    IF m.type = "WHITESPACE" THEN TokenizeFromDropsFirstOnly(text, m.end, acc)
    ELSE IF m.type = "MISMATCH"
      THEN [ok |-> FALSE, toks |-> acc, error |-> UnexpectedCharacter(text[pos], pos - 1)]
    ELSE IF m.type = "STRING"
      THEN TokenizeFromDropsFirstOnly(text, m.end,
             Append(acc, Token("STRING", SubSeq(text, pos + 1, m.end - 1))))
    ELSE TokenizeFromDropsFirstOnly(text, m.end,
             Append(acc, Token(m.type, SubSeq(text, pos, m.end - 1))))

RECURSIVE TokenizeFrom(_, _, _)
TokenizeFrom(text, pos, acc) ==
  IF pos > Len(text)
    THEN [ok |-> TRUE, toks |-> Append(acc, EOFToken), error |-> NoError]
  ELSE
    LET m == MatchAt(text, pos) IN
    IF m.type = "WHITESPACE" THEN TokenizeFrom(text, m.end, acc)
    ELSE IF m.type = "MISMATCH"
      THEN [ok |-> FALSE, toks |-> acc, error |-> UnexpectedCharacter(text[pos], pos - 1)]
    ELSE IF m.type = "STRING"
      THEN TokenizeFrom(text, m.end,
             Append(acc, Token("STRING", SubSeq(text, pos + 1, m.end - 2))))
    ELSE TokenizeFrom(text, m.end,
             Append(acc, Token(m.type, SubSeq(text, pos, m.end - 1))))

Tokenize(text) == TokenizeFrom(text, 1, <<>>)

(***************************************************************************)
(* Parser (parser.py)                                                      *)
(***************************************************************************)
\* A keyword-argument value: a string, or the boolean True of a bare flag.
StrVal(s) == [bool |-> FALSE, str |-> s]
TrueVal == [bool |-> TRUE, str |-> <<>>]

NoKwargs == [k \in {} |-> TrueVal]

\* kwargs[k] = v
Put(kwargs, k, v) ==
  [x \in (DOMAIN kwargs) \cup {k} |-> IF x = k THEN v ELSE kwargs[x]]

\* {TokType.SEMI, TokType.AND}: || is not taken as a separator
SeparatorsWithoutOr == {"SEMI", "AND"}

Separators == {"SEMI", "AND", "OR"}
ArgStop == {"AND", "OR", "SEMI", "EOF"}
ValueTypes == {"COMMAND", "STRING"}

\* next_token without the EOF token for an empty deque: past the last token
\* the current token is no EOF
TokAtPastEnd(toks, i) ==
  IF i <= Len(toks) THEN toks[i] ELSE Token("MISMATCH", <<>>)

\* self.current after i - 1 calls of next_token on a fresh Parser: the
\* deque's next token, EOF once the deque is empty.
TokAt(toks, i) == IF i <= Len(toks) THEN toks[i] ELSE EOFToken

\* parse_command without the next_token() after "kwargs[flag] =
\* self.current.value": the value is bound and then read again as an argument
RECURSIVE ParseArgsValueNotConsumed(_, _, _, _)
ParseArgsValueNotConsumed(toks, i, args, kwargs) ==
  LET cur == TokAt(toks, i) IN
  IF cur.type \in ArgStop
    THEN [args |-> args, kwargs |-> kwargs, next |-> i]
  ELSE IF cur.type = "FLAG"
    THEN LET flag == LStripDash(cur.value) IN
         IF HasEq(flag)
           THEN ParseArgsValueNotConsumed(toks, i + 1, args,
                          Put(kwargs, SplitKey(flag), StrVal(SplitVal(flag))))
         ELSE IF TokAt(toks, i + 1).type \in ValueTypes
           THEN ParseArgsValueNotConsumed(toks, i + 1, args,
                          Put(kwargs, flag, StrVal(TokAt(toks, i + 1).value)))
         ELSE ParseArgsValueNotConsumed(toks, i + 1, args, Put(kwargs, flag, TrueVal))
  ELSE IF cur.type \in ValueTypes
    THEN IF HasEq(cur.value)
           THEN ParseArgsValueNotConsumed(toks, i + 1, args,
                          Put(kwargs, SplitKey(cur.value), StrVal(SplitVal(cur.value))))
           ELSE ParseArgsValueNotConsumed(toks, i + 1, Append(args, cur.value), kwargs)
  ELSE [args |-> args, kwargs |-> kwargs, next |-> i]

\* parse_command with a next_token() after "kwargs[flag] = True" as well:
\* the token after a bare flag is always consumed
RECURSIVE ParseArgsAlwaysConsumes(_, _, _, _)
ParseArgsAlwaysConsumes(toks, i, args, kwargs) ==
  LET cur == TokAt(toks, i) IN
  IF cur.type \in ArgStop
    THEN [args |-> args, kwargs |-> kwargs, next |-> i]
  ELSE IF cur.type = "FLAG"
    THEN LET flag == LStripDash(cur.value) IN
         IF HasEq(flag)
           THEN ParseArgsAlwaysConsumes(toks, i + 1, args,
                          Put(kwargs, SplitKey(flag), StrVal(SplitVal(flag))))
         ELSE IF TokAt(toks, i + 1).type \in ValueTypes
           THEN ParseArgsAlwaysConsumes(toks, i + 2, args,
                          Put(kwargs, flag, StrVal(TokAt(toks, i + 1).value)))
         ELSE ParseArgsAlwaysConsumes(toks, i + 2, args, Put(kwargs, flag, TrueVal))
  ELSE IF cur.type \in ValueTypes
    THEN IF HasEq(cur.value)
           THEN ParseArgsAlwaysConsumes(toks, i + 1, args,
                          Put(kwargs, SplitKey(cur.value), StrVal(SplitVal(cur.value))))
           ELSE ParseArgsAlwaysConsumes(toks, i + 1, Append(args, cur.value), kwargs)
  ELSE [args |-> args, kwargs |-> kwargs, next |-> i]

\* The while loop of parse_command, from token i.
RECURSIVE ParseArgs(_, _, _, _)
ParseArgs(toks, i, args, kwargs) ==
  LET cur == TokAt(toks, i) IN
  IF cur.type \in ArgStop
    THEN [args |-> args, kwargs |-> kwargs, next |-> i]
  ELSE IF cur.type = "FLAG"
    THEN LET flag == LStripDash(cur.value) IN
         IF HasEq(flag)
           THEN ParseArgs(toks, i + 1, args,
                          Put(kwargs, SplitKey(flag), StrVal(SplitVal(flag))))
         ELSE IF TokAt(toks, i + 1).type \in ValueTypes
           THEN ParseArgs(toks, i + 2, args,
                          Put(kwargs, flag, StrVal(TokAt(toks, i + 1).value)))
         ELSE ParseArgs(toks, i + 1, args, Put(kwargs, flag, TrueVal))
  ELSE IF cur.type \in ValueTypes
    THEN IF HasEq(cur.value)
           THEN ParseArgs(toks, i + 1, args,
                          Put(kwargs, SplitKey(cur.value), StrVal(SplitVal(cur.value))))
           ELSE ParseArgs(toks, i + 1, Append(args, cur.value), kwargs)
  ELSE [args |-> args, kwargs |-> kwargs, next |-> i]

\* parse_command that takes a quoted string as a command name as well
ParseCommandAcceptsString(toks, i) ==
  IF TokAt(toks, i).type \notin {"COMMAND", "STRING"}
    THEN [ok |-> FALSE, errType |-> TokAt(toks, i).type,
          cmd |-> <<>>, args |-> <<>>, kwargs |-> NoKwargs, next |-> i]
    ELSE LET tail == ParseArgs(toks, i + 1, <<>>, NoKwargs) IN
         [ok |-> TRUE, errType |-> "",
          cmd |-> TokAt(toks, i).value, args |-> tail.args,
          kwargs |-> tail.kwargs, next |-> tail.next]

\* parse_command at token i; ok is FALSE when it raises SyntaxError
\* ("Expected command, got <errType>").
ParseCommand(toks, i) ==
  IF TokAt(toks, i).type # "COMMAND"
    THEN [ok |-> FALSE, errType |-> TokAt(toks, i).type,
          cmd |-> <<>>, args |-> <<>>, kwargs |-> NoKwargs, next |-> i]
    ELSE LET tail == ParseArgs(toks, i + 1, <<>>, NoKwargs) IN
         [ok |-> TRUE, errType |-> "",
          cmd |-> TokAt(toks, i).value, args |-> tail.args,
          kwargs |-> tail.kwargs, next |-> tail.next]

\* parse_chain: the command tagged "COMMAND".
ParseChain(c) ==
  [type |-> "COMMAND", cmd |-> c.cmd, args |-> c.args, kwargs |-> c.kwargs]

\* parse that calls parse_chain after every separator, without the test for
\* EOF in between
RECURSIVE ParseFromNoTrailing(_, _, _)
ParseFromNoTrailing(toks, i, chains) ==
  IF TokAt(toks, i).type = "EOF" /\ (i = 1 \/ TokAt(toks, i - 1).type \notin Separators)
    THEN [ok |-> TRUE, chains |-> chains, error |-> NoError]
  ELSE
    LET c == ParseCommand(toks, i) IN
    IF ~c.ok THEN [ok |-> FALSE, chains |-> <<>>, error |-> ExpectedCommand(c.errType)]
    ELSE ParseFromNoTrailing(toks,
                   IF TokAt(toks, c.next).type \in Separators THEN c.next + 1 ELSE c.next,
                   Append(chains, ParseChain(c)))

\* parse as a do-while loop: parse_chain is called before the test for EOF
RECURSIVE ParseFromRequiresCommand(_, _, _)
ParseFromRequiresCommand(toks, i, chains) ==
  LET c == ParseCommand(toks, i) IN
  IF ~c.ok THEN [ok |-> FALSE, chains |-> <<>>, error |-> ExpectedCommand(c.errType)]
  ELSE
    LET n == IF TokAt(toks, c.next).type \in Separators THEN c.next + 1 ELSE c.next IN
    IF TokAt(toks, n).type = "EOF"
      THEN [ok |-> TRUE, chains |-> Append(chains, ParseChain(c)), error |-> NoError]
    ELSE ParseFromRequiresCommand(toks, n, Append(chains, ParseChain(c)))

\* parse that returns the chains parsed so far when parse_command raises
RECURSIVE ParseFromSalvages(_, _, _)
ParseFromSalvages(toks, i, chains) ==
  IF TokAt(toks, i).type = "EOF"
    THEN [ok |-> TRUE, chains |-> chains, error |-> NoError]
  ELSE
    LET c == ParseCommand(toks, i) IN
    IF ~c.ok THEN [ok |-> TRUE, chains |-> chains, error |-> NoError]
    ELSE ParseFromSalvages(toks,
                   IF TokAt(toks, c.next).type \in Separators THEN c.next + 1 ELSE c.next,
                   Append(chains, ParseChain(c)))

\* The while loop of parse, from token i.
RECURSIVE ParseFrom(_, _, _)
ParseFrom(toks, i, chains) ==
  IF TokAt(toks, i).type = "EOF"
    THEN [ok |-> TRUE, chains |-> chains, error |-> NoError]
  ELSE
    LET c == ParseCommand(toks, i) IN
    IF ~c.ok THEN [ok |-> FALSE, chains |-> <<>>, error |-> ExpectedCommand(c.errType)]
    ELSE ParseFrom(toks,
                   IF TokAt(toks, c.next).type \in Separators THEN c.next + 1 ELSE c.next,
                   Append(chains, ParseChain(c)))

\* Parser(tokens).parse()
Parse(toks) == ParseFrom(toks, 1, <<>>)

(***************************************************************************)
(* Words                                                                   *)
(***************************************************************************)
W_exit == <<"e","x","i","t">>
W_quit == <<"q","u","i","t">>
W_QuIt == <<"Q","u","I","t">>
W_echo == <<"e","c","h","o">>
W_headsortails == <<"h","e","a","d","s","o","r","t","a","i","l","s">>
W_HeadsOrTails == <<"H","e","a","d","s","O","r","T","a","i","l","s">>
W_pycache == <<"_","_","p","y","c","a","c","h","e","_","_">>
W_flip == <<"f","l","i","p">>
W_nope == <<"n","o","p","e">>
W_hello == <<"h","e","l","l","o">>
W_flag == <<"f","l","a","g">>
W_cmd == <<"c","m","d">>
W_opt == <<"o","p","t">>
W_value == <<"v","a","l","u","e">>
W_pos1 == <<"p","o","s","1">>
W_cmdA == <<"c","m","d","A">>
W_cmdB == <<"c","m","d","B">>

(***************************************************************************)
(* The commands package (src/src/commands) and the configuration           *)
(***************************************************************************)
\* What importlib finds under commands.<name>: the modules of the package,
\* each with the first BaseCommand subclass inspect.getmembers finds in it
\* and that class's fun attribute.  commands/__pycache__ is a directory
\* without __init__.py: it imports as a namespace package with no class.
ClassOf(fun) == [hasClass |-> TRUE, fun |-> fun]
NoClass == [hasClass |-> FALSE, fun |-> FALSE]

CommandsPackage ==
  (W_echo :> ClassOf(FALSE)) @@ (W_headsortails :> ClassOf(TRUE)) @@
  (W_pycache :> NoClass)

\* features.fun_commands of the configuration file, as Config.get_config()
\* reads it at the time of the call.
FunFlagValues == {"true", "false", "absent"}

\* .get("fun_commands", False)
FunCommandsDefaultOff(flag) == flag = "true"

\* .get("fun_commands", True)
FunCommands(flag) == flag # "false"

\* The "aliases" object of the configuration file.
NoAliases == [k \in {} |-> <<>>]
SampleAliases == (W_flip :> W_HeadsOrTails)
AliasTables == {NoAliases, SampleAliases}

(***************************************************************************)
(* Exceptions                                                              *)
(***************************************************************************)
\* The classes raised in the model that derive from Exception.
\* KeyboardInterrupt derives from BaseException only.
ExceptionClasses ==
  {"SyntaxError", "ModuleNotFoundError", "EOFError", "TypeError", "RuntimeError"}

IsException(cls) == cls \in ExceptionClasses

(***************************************************************************)
(* Executor (executor.py)                                                  *)
(***************************************************************************)
\* Largest absolute exit code a plugin returns in the model.
MaxCode == 1
ExitCodes == (0 - MaxCode)..MaxCode

\* What a plugin's execute does once it is called: it returns an exit code,
\* raises an error, or is interrupted (KeyboardInterrupt is raised inside
\* the blocking call).
PluginOutcomes ==
  [t : {"ret"}, code : ExitCodes, exc : {""}] \cup
  [t : {"raise"}, code : {0}, exc : {"RuntimeError", "KeyboardInterrupt"}]

\* self.aliases.get(command): no default for a name that is no alias
ResolveAliasNoDefault(table, command) ==
  IF command \in DOMAIN table THEN table[command] ELSE <<>>

\* self.aliases.get(command.lower(), command): the name is normalized
\* before the lookup
ResolveAliasLowerFirst(table, command) ==
  IF Lower(command) \in DOMAIN table THEN table[Lower(command)] ELSE command

\* self.aliases.get(command, command)
ResolveAlias(table, command) ==
  IF command \in DOMAIN table THEN table[command] ELSE command

\* result > 0
FailedPositive(result) == result > 0

\* result != 0
Failed(result) == result # 0

\* getattr(CommandClass, "fun", False): the configuration is not looked at
GatedWhenFun(desc, flag) == desc.fun

\* getattr(CommandClass, "fun", False) and not ...get("fun_commands", True)
Gated(desc, flag) == desc.fun /\ ~FunCommands(flag)

\* except TypeError as e
ExecutorCatchesTypeError(cls) == cls = "TypeError"

\* except Exception as e, around the plugin call
ExecutorCatches(cls) == IsException(cls)

\* What one call of execute_command did.  kind is "return" (value is the
\* boolean returned) or "raise" (exc leaves the call); prints and logs are
\* what it printed and logged; instantiated and executed count the
\* instances of the command class it made and its calls of execute.
ExecResult(kind, value, exc, prints, logs, inst, exec) ==
  [kind |-> kind, value |-> value, exc |-> exc, prints |-> prints, logs |-> logs,
   instantiated |-> inst, executed |-> exec]

\* The second try block of execute_command: instantiate, execute, classify.
\* A module without a command class leaves CommandClass None, and calling
\* None raises TypeError.
InvokePlugin(desc, outcome) ==
  LET raised == IF ~desc.hasClass THEN "TypeError"
                ELSE IF outcome.t = "raise" THEN outcome.exc ELSE ""
      calls == IF desc.hasClass THEN 1 ELSE 0
  IN
  IF raised # ""
    THEN IF ExecutorCatches(raised)
           THEN ExecResult("return", FALSE, "", <<"error_running">>, <<"error_executing">>,
                           calls, calls)
           ELSE ExecResult("raise", FALSE, raised, <<>>, <<>>, calls, calls)
  ELSE IF Failed(outcome.code)
    THEN ExecResult("return", FALSE, "", <<"failed_exit_code">>, <<"failed_exit_code">>,
                    1, 1)
  ELSE ExecResult("return", TRUE, "", <<>>, <<>>, 1, 1)

\* execute_command that raises in its first try block when the module
\* holds no command class
ExecuteCommandChecksClass(cmd_dict, table, flag, outcome) ==
  LET cmd_name == ResolveAlias(table, cmd_dict.cmd)
      module == Lower(cmd_name)
  IN
  IF module \notin DOMAIN CommandsPackage \/ ~CommandsPackage[module].hasClass
    THEN ExecResult("raise", FALSE, "ModuleNotFoundError",
                    <<"import_error">>, <<"error_loading">>, 0, 0)
  ELSE IF Gated(CommandsPackage[module], flag)
    THEN ExecResult("return", TRUE, "", <<"fun_disabled">>, <<"warning_fun_disabled">>,
                    0, 0)
  ELSE InvokePlugin(CommandsPackage[module], outcome)

\* execute_command without the print(e) of its first except clause
ExecuteCommandQuietNotFound(cmd_dict, table, flag, outcome) ==
  LET cmd_name == ResolveAlias(table, cmd_dict.cmd)
      module == Lower(cmd_name)
  IN
  IF module \notin DOMAIN CommandsPackage
    THEN ExecResult("raise", FALSE, "ModuleNotFoundError",
                    <<>>, <<"error_loading">>, 0, 0)
  ELSE IF Gated(CommandsPackage[module], flag)
    THEN ExecResult("return", TRUE, "", <<"fun_disabled">>, <<"warning_fun_disabled">>,
                    0, 0)
  ELSE InvokePlugin(CommandsPackage[module], outcome)

\* execute_command without the raise of its first except clause: the
\* "return False" after it is reached
ExecuteCommandReturnsFalse(cmd_dict, table, flag, outcome) ==
  LET cmd_name == ResolveAlias(table, cmd_dict.cmd)
      module == Lower(cmd_name)
  IN
  IF module \notin DOMAIN CommandsPackage
    THEN ExecResult("return", FALSE, "",
                    <<"import_error">>, <<"error_loading">>, 0, 0)
  ELSE IF Gated(CommandsPackage[module], flag)
    THEN ExecResult("return", TRUE, "", <<"fun_disabled">>, <<"warning_fun_disabled">>,
                    0, 0)
  ELSE InvokePlugin(CommandsPackage[module], outcome)

\* execute_command(cmd_dict) with the alias table of the Executor, the
\* fun_commands flag the configuration file holds at the time of the call,
\* and what the plugin does if it is called.
ExecuteCommand(cmd_dict, table, flag, outcome) ==
  LET cmd_name == ResolveAlias(table, cmd_dict.cmd)
      module == Lower(cmd_name)
  IN
  IF module \notin DOMAIN CommandsPackage
    \* import_module raises ModuleNotFoundError; it is printed, logged and
    \* raised again as "Command not found"
    THEN ExecResult("raise", FALSE, "ModuleNotFoundError",
                    <<"import_error">>, <<"error_loading">>, 0, 0)
  ELSE IF Gated(CommandsPackage[module], flag)
    THEN ExecResult("return", TRUE, "", <<"fun_disabled">>, <<"warning_fun_disabled">>,
                    0, 0)
  ELSE InvokePlugin(CommandsPackage[module], outcome)

(***************************************************************************)
(* State                                                                   *)
(***************************************************************************)
VARIABLES
  running,      \* CLI.running
  pc,           \* where the program is: "loop" (the while test of CLI.run),
                \* "input" (blocked in input()), "exec" (in the for loop over
                \* the parsed chains), "stopped" (CLI.run returned), "crashed"
                \* (an exception left CLI.run); "run", "returned", "raised"
                \* for a call of Executor.run
  line,         \* the text input() returned in this iteration
  chains,       \* command_structs of this iteration / the argument of run
  idx,          \* position of the for loop in chains
  results,      \* one entry per execute_command call of this iteration
  console,      \* what this iteration printed
  log,          \* what this iteration logged
  lineEnd,      \* how this iteration's line ended
  tokens,       \* the tokens the tokenizer yielded for this line
  error,        \* the SyntaxError the tokenizer or the parser raised
  last_status,  \* last_status of Executor.run
  aliases,      \* Executor.aliases
  cfgFun        \* features.fun_commands in the configuration file

vars == <<running, pc, line, chains, idx, results, console, log, lineEnd,
          tokens, error, last_status, aliases, cfgFun>>

(***************************************************************************)
(* State of the plugins that run threads (commands/chat.py, llm.py)        *)
(***************************************************************************)
\* The chat server accepts at most MaxClients client sockets.
MaxClients == 2

Socks == 1..MaxClients

\* The threads that call broadcast: the host loop of start_server and one
\* handle_client thread per accepted socket.
Host == 0

Threads == {Host} \cup Socks

\* The frames the spinner of the llm command wrote are counted up to
\* MaxSpins.
MaxSpins == 2

VARIABLES
  chat_running, \* running of start_server, read by its closures
  clients,      \* the list clients of start_server
  server,       \* the listening socket: "listening", "closed"
  sockets,      \* each client socket: "unconnected", "open", "closed"
  peer,         \* whether the remote end of each socket is still there
  noticed,      \* the sockets the shutdown notice was sent on
  acceptor,     \* where the accept_clients thread is
  at,           \* where the host loop and each handle_client thread is
  bc,           \* the broadcast call of each thread
  sd,           \* the for loop of the shutdown
  llm_args,     \* args of LLM.execute
  llm_pc,       \* where LLM.execute / _do_query is
  spinner,      \* where the spinner thread is
  spinner_done, \* the Event spinner_done
  spins,        \* frames the spinner wrote
  resp,         \* the local resp of _do_query
  llm_out,      \* what the llm command printed
  llm_ret       \* how LLM.execute ended

chatVars == <<chat_running, clients, server, sockets, peer, noticed, acceptor,
              at, bc, sd>>

llmVars == <<llm_args, llm_pc, spinner, spinner_done, spins, resp, llm_out,
             llm_ret>>

pluginVars == <<chatVars, llmVars>>

\* A broadcast call: st is where it is, snap the copy clients[:] it loops
\* over, i the position of the loop, sent the sockets send succeeded on.
NoFrame == [st |-> "off", snap |-> <<>>, i |-> 0, sent |-> {}]

EnterBroadcast == [st |-> "check", snap |-> <<>>, i |-> 0, sent |-> {}]

\* resp before its assignment, and the Response requests.post returns.
Unbound == [bound |-> FALSE, status |-> "", body |-> ""]

Response(status, body) == [bound |-> TRUE, status |-> status, body |-> body]

\* How a call ends: not yet, return of a value, or an exception.
NoReturn == [kind |-> "none", value |-> 0, exc |-> ""]

Return(v) == [kind |-> "return", value |-> v, exc |-> ""]

Raise(cls) == [kind |-> "raise", value |-> 0, exc |-> cls]

\* No chat server was started.
ChatIdle ==
  /\ chat_running = FALSE
  /\ clients = <<>>
  /\ server = "closed"
  /\ sockets = [s \in Socks |-> "unconnected"]
  /\ peer = [s \in Socks |-> TRUE]
  /\ noticed = [s \in Socks |-> FALSE]
  /\ acceptor = "off"
  /\ at = [t \in Threads |-> "off"]
  /\ bc = [t \in Threads |-> NoFrame]
  /\ sd = [snap |-> <<>>, i |-> 0]

\* The llm command was not called.
LlmIdle ==
  /\ llm_args = <<>>
  /\ llm_pc = "off"
  /\ spinner = "off"
  /\ spinner_done = FALSE
  /\ spins = 0
  /\ resp = Unbound
  /\ llm_out = <<>>
  /\ llm_ret = NoReturn

PluginsIdle == ChatIdle /\ LlmIdle

\* The interpreter is inside a plugin's execute.
CoreInPlugin ==
  /\ running = TRUE
  /\ pc = "plugin"
  /\ line = <<>>
  /\ chains = <<>>
  /\ idx = 0
  /\ results = <<>>
  /\ console = <<>>
  /\ log = <<>>
  /\ lineEnd = "executing"
  /\ tokens = <<>>
  /\ error = NoError
  /\ last_status = TRUE
  /\ aliases = NoAliases
  /\ cfgFun = "absent"

(***************************************************************************)
(* Input lines                                                             *)
(***************************************************************************)
\* Lines are made of at most MaxPieces pieces.
MaxPieces == 3

Pieces ==
  {W_echo, W_flip, W_pycache, W_exit, W_QuIt, <<" ">>, <<";">>, <<"@">>}

RECURSIVE LinesOf(_)
LinesOf(n) ==
  IF n = 0 THEN {<<>>}
  ELSE LinesOf(n - 1) \cup {l \o p : l \in LinesOf(n - 1), p \in Pieces}

InputLines == LinesOf(MaxPieces)

(***************************************************************************)
(* CLI (cli.py)                                                            *)
(***************************************************************************)
\* raw_input in ("exit", "quit"): the comparison without lower()
HandleSpecialCaseSensitive(raw_input, run) ==
  IF raw_input \in {W_exit, W_quit}
    THEN [special |-> TRUE, running |-> FALSE,
          prints |-> <<"goodbye">>, logs |-> <<"exiting">>]
    ELSE [special |-> FALSE, running |-> run, prints |-> <<>>, logs |-> <<>>]

\* raw_input.lower() in ("quit",): "exit" is left out
HandleSpecialQuitOnly(raw_input, run) ==
  IF Lower(raw_input) \in {W_quit}
    THEN [special |-> TRUE, running |-> FALSE,
          prints |-> <<"goodbye">>, logs |-> <<"exiting">>]
    ELSE [special |-> FALSE, running |-> run, prints |-> <<>>, logs |-> <<>>]

\* raw_input.lower().startswith(("exit", "quit"))
HandleSpecialFirstWord(raw_input, run) ==
  IF Len(raw_input) >= 4 /\ Lower(SubSeq(raw_input, 1, 4)) \in {W_exit, W_quit}
    THEN [special |-> TRUE, running |-> FALSE,
          prints |-> <<"goodbye">>, logs |-> <<"exiting">>]
    ELSE [special |-> FALSE, running |-> run, prints |-> <<>>, logs |-> <<>>]

\* _handle_special_commands(raw_input): whether it handled the input, and
\* what it leaves in self.running, on the console and in the log.
HandleSpecialCommands(raw_input, run) ==
  IF Lower(raw_input) \in {W_exit, W_quit}
    THEN [special |-> TRUE, running |-> FALSE,
          prints |-> <<"goodbye">>, logs |-> <<"exiting">>]
    ELSE [special |-> FALSE, running |-> run, prints |-> <<>>, logs |-> <<>>]

\* except ModuleNotFoundError as e
CliCatchesNotFound(cls) == cls = "ModuleNotFoundError"

\* except Exception as e, with EOFError left to propagate
CliCatchesButEOF(cls) == IsException(cls) /\ cls # "EOFError"

\* except Exception as e
CliCatches(cls) == IsException(cls)

\* except KeyboardInterrupt
CliInterrupted(cls) == cls = "KeyboardInterrupt"

\* The except clauses of CLI.run for an exception of class cls raised in
\* the try block: the handler that takes it, and what it leaves.
CliExcept(cls, run) ==
  IF CliCatches(cls)
    THEN [handler |-> "print_error", running |-> run,
          prints |-> <<"cli_error">>, logs |-> <<>>]
  ELSE IF CliInterrupted(cls)
    THEN LET sp == HandleSpecialCommands(W_exit, run) IN
         [handler |-> "interrupt", running |-> sp.running,
          prints |-> sp.prints, logs |-> sp.logs]
  ELSE [handler |-> "propagate", running |-> run, prints |-> <<>>, logs |-> <<>>]

\* Where control goes after an except clause: back to the while test,
\* or out of CLI.run with the exception.
AfterExcept(ex) == IF ex.handler = "propagate" THEN "crashed" ELSE "loop"

\* The loop with "if not success: break"
ForNextBreakOnFailure(i, n, success) == IF success THEN i + 1 ELSE n + 1

\* for cmd_struct in command_structs: success = ...execute_command(...)
\* The loop goes on to the next chain whatever success is.
ForNext(i, n, success) == i + 1

\* What is recorded of one execute_command call.
\* What is recorded of one execute_command call: the command name given,
\* the alias table's answer, the fun_commands flag at the time of the call,
\* what the plugin did if it was called, and what the call did.
Entry(cmd_dict, table, flag, outcome, r) ==
  [cmd |-> cmd_dict.cmd, cmd_name |-> ResolveAlias(table, cmd_dict.cmd), flag |-> flag,
   outcome |-> IF r.executed > 0 THEN outcome ELSE [t |-> "none", code |-> 0, exc |-> ""],
   kind |-> r.kind, value |-> r.value, exc |-> r.exc,
   instantiated |-> r.instantiated, executed |-> r.executed, prints |-> r.prints]

Init ==
  /\ running = TRUE
  /\ pc = "loop"
  /\ line = <<>>
  /\ chains = <<>>
  /\ idx = 0
  /\ results = <<>>
  /\ console = <<>>
  /\ log = <<>>
  /\ lineEnd = "none"
  /\ tokens = <<>>
  /\ error = NoError
  /\ last_status = TRUE
  /\ aliases \in AliasTables
  /\ cfgFun \in FunFlagValues
  /\ PluginsIdle

\* while self.running: a new iteration renders the prompt and blocks in
\* input(); otherwise CLI.run returns.
LoopTest ==
  /\ pc = "loop"
  /\ UNCHANGED pluginVars
  /\ IF running
       THEN /\ pc' = "input"
            /\ line' = <<>> /\ chains' = <<>> /\ idx' = 0 /\ results' = <<>>
            /\ console' = <<>> /\ log' = <<>> /\ lineEnd' = "reading"
            /\ tokens' = <<>> /\ error' = NoError
       ELSE /\ pc' = "stopped"
            /\ UNCHANGED <<line, chains, idx, results, console, log, lineEnd,
                           tokens, error>>
  /\ UNCHANGED <<running, last_status, aliases, cfgFun>>

\* input() returns typed: strip, special commands, tokenize, parse, and the
\* entry of the for loop; a SyntaxError of the tokenizer or the parser goes
\* to the except clauses.
ReadLine(typed) ==
  /\ pc = "input"
  /\ UNCHANGED pluginVars
  /\ LET raw_input == Strip(typed)
         sp == HandleSpecialCommands(raw_input, running)
         t == Tokenize(raw_input)
         p == Parse(t.toks)
         err == IF ~t.ok THEN "lexical" ELSE IF ~p.ok THEN "syntax" ELSE ""
         ex == CliExcept("SyntaxError", running)
     IN
     /\ line' = typed
     /\ results' = <<>>
     /\ IF sp.special
          THEN /\ running' = sp.running
               /\ pc' = "loop"
               /\ chains' = <<>> /\ idx' = 0
               /\ console' = sp.prints
               /\ log' = <<"user_input">> \o sp.logs
               /\ lineEnd' = "exit"
               /\ tokens' = <<>> /\ error' = NoError
        ELSE IF err # ""
          THEN /\ running' = ex.running
               /\ pc' = AfterExcept(ex)
               /\ chains' = <<>> /\ idx' = 0
               /\ console' = ex.prints
               /\ log' = <<"user_input">> \o ex.logs
               /\ lineEnd' = err
               /\ tokens' = t.toks
               /\ error' = IF ~t.ok THEN t.error ELSE p.error
        ELSE /\ running' = sp.running
             /\ tokens' = t.toks /\ error' = NoError
             /\ chains' = p.chains
             /\ console' = <<>>
             /\ log' = <<"user_input">>
             /\ IF Len(p.chains) = 0
                  THEN pc' = "loop" /\ idx' = 0 /\ lineEnd' = "completed"
                  ELSE pc' = "exec" /\ idx' = 1 /\ lineEnd' = "executing"
  /\ UNCHANGED <<last_status, aliases, cfgFun>>

\* The user types any line.
ReadAnyLine == pc = "input" /\ \E typed \in InputLines : ReadLine(typed)

\* input() raises EOFError: the input stream is exhausted.
ReadEOF ==
  /\ pc = "input"
  /\ UNCHANGED pluginVars
  /\ LET ex == CliExcept("EOFError", running) IN
     /\ running' = ex.running
     /\ pc' = AfterExcept(ex)
     /\ console' = ex.prints
     /\ log' = ex.logs
     /\ lineEnd' = "eof"
  /\ UNCHANGED <<line, chains, idx, results, tokens, error, last_status, aliases,
                 cfgFun>>

\* The interrupt signal arrives while input() blocks: KeyboardInterrupt is
\* raised in the try block.
InterruptAtInput ==
  /\ pc = "input"
  /\ UNCHANGED pluginVars
  /\ LET ex == CliExcept("KeyboardInterrupt", running) IN
     /\ running' = ex.running
     /\ pc' = AfterExcept(ex)
     /\ console' = ex.prints
     /\ log' = ex.logs
     /\ lineEnd' = "interrupt"
  /\ UNCHANGED <<line, chains, idx, results, tokens, error, last_status, aliases,
                 cfgFun>>

\* How a line ends when an exception of class cls leaves execute_command.
RaisedEnd(cls) ==
  IF cls = "ModuleNotFoundError" THEN "notfound"
  ELSE IF cls = "KeyboardInterrupt" THEN "interrupt"
  ELSE "error"

\* One iteration of the for loop of CLI.run: execute_command on the next
\* chain; what it raises goes to the except clauses.
ExecChain(outcome) ==
  /\ pc = "exec"
  /\ UNCHANGED pluginVars
  /\ LET r == ExecuteCommand(chains[idx], aliases, cfgFun, outcome)
         ex == CliExcept(r.exc, running)
     IN
     /\ results' = Append(results, Entry(chains[idx], aliases, cfgFun, outcome, r))
     /\ IF r.kind = "return"
          THEN /\ running' = running
               /\ console' = console \o r.prints
               /\ log' = log \o r.logs
               /\ IF ForNext(idx, Len(chains), r.value) <= Len(chains)
                    THEN pc' = "exec" /\ idx' = ForNext(idx, Len(chains), r.value)
                         /\ lineEnd' = "executing"
                    ELSE pc' = "loop" /\ idx' = idx /\ lineEnd' = "completed"
          ELSE /\ running' = ex.running
               /\ console' = console \o r.prints \o ex.prints
               /\ log' = log \o r.logs \o ex.logs
               /\ pc' = AfterExcept(ex)
               /\ idx' = idx
               /\ lineEnd' = RaisedEnd(r.exc)
  /\ UNCHANGED <<line, chains, tokens, error, last_status, aliases, cfgFun>>

\* The configuration file is edited while the program runs.
EditConfig ==
  /\ pc \in {"input", "exec", "run"}
  /\ UNCHANGED pluginVars
  /\ cfgFun' \in FunFlagValues \ {cfgFun}
  /\ UNCHANGED <<running, pc, line, chains, idx, results, console, log, lineEnd,
                 tokens, error, last_status, aliases>>

Next ==
  \/ LoopTest
  \/ ReadAnyLine
  \/ ReadEOF
  \/ InterruptAtInput
  \/ \E outcome \in PluginOutcomes : ExecChain(outcome)
  \/ EditConfig

Spec == Init /\ [][Next]_vars

(***************************************************************************)
(* Executor.run (executor.py)                                              *)
(***************************************************************************)
\* run is called with at most MaxRunChains chains.
MaxRunChains == 2

Chain(type, cmd) == [type |-> type, cmd |-> cmd, args |-> <<>>, kwargs |-> NoKwargs]

\* A chain without a "type" key.
Untyped(cmd) == [cmd |-> cmd, args |-> <<>>, kwargs |-> NoKwargs]

RunChainValues ==
  {Chain("COMMAND", W_echo), Chain("COMMAND", W_headsortails),
   Chain("COMMAND", W_nope), Chain("PIPE", W_echo), Untyped(W_echo)}

RECURSIVE ChainSeqs(_)
ChainSeqs(n) ==
  IF n = 0 THEN {<<>>}
  ELSE ChainSeqs(n - 1) \cup {Append(cs, c) : cs \in ChainSeqs(n - 1), c \in RunChainValues}

\* chain.get("type", "COMMAND")
ChainType(chain) == IF "type" \in DOMAIN chain THEN chain.type ELSE "COMMAND"

\* last_status = last_status and self.execute_command(chain)
RunStatusAnd(last, value) == last /\ value

\* last_status = self.execute_command(chain)
RunStatus(last, value) == value

\* The state at the call of run(chains).
InitRun ==
  /\ running = TRUE
  /\ pc = "run"
  /\ line = <<>>
  /\ chains \in ChainSeqs(MaxRunChains)
  /\ idx = 1
  /\ results = <<>>
  /\ console = <<>>
  /\ log = <<>>
  /\ lineEnd = "none"
  /\ tokens = <<>>
  /\ error = NoError
  /\ last_status = TRUE
  /\ aliases \in AliasTables
  /\ cfgFun \in FunFlagValues
  /\ PluginsIdle

\* One iteration of the for loop of run.
RunStep(outcome) ==
  /\ pc = "run"
  /\ UNCHANGED pluginVars
  /\ idx <= Len(chains)
  /\ IF ChainType(chains[idx]) = "COMMAND"
       THEN LET r == ExecuteCommand(chains[idx], aliases, cfgFun, outcome) IN
            /\ results' = Append(results, Entry(chains[idx], aliases, cfgFun, outcome, r))
            /\ console' = console \o r.prints
            /\ log' = log \o r.logs
            /\ IF r.kind = "return"
                 THEN /\ last_status' = RunStatus(last_status, r.value)
                      /\ idx' = idx + 1
                      /\ pc' = "run"
                 ELSE /\ last_status' = last_status
                      /\ idx' = idx
                      /\ pc' = "raised"
       ELSE /\ console' = Append(console, "unsupported_chain")
            /\ idx' = idx + 1
            /\ UNCHANGED <<results, log, last_status, pc>>
  /\ UNCHANGED <<running, line, chains, lineEnd, tokens, error, aliases, cfgFun>>

\* return last_status
RunReturn ==
  /\ pc = "run"
  /\ UNCHANGED pluginVars
  /\ idx > Len(chains)
  /\ pc' = "returned"
  /\ UNCHANGED <<running, line, chains, idx, results, console, log, lineEnd,
                 tokens, error, last_status, aliases, cfgFun>>

NextRun ==
  \/ \E outcome \in PluginOutcomes : RunStep(outcome)
  \/ RunReturn
  \/ EditConfig

SpecRun == InitRun /\ [][NextRun]_vars

(***************************************************************************)
(* One call of execute_command, for names in several spellings and alias   *)
(* tables with more than one entry                                         *)
(***************************************************************************)
W_Flip == <<"F","l","i","p">>

W_ECHO == <<"E","C","H","O">>

\* {"flip": "echo", "echo": "HeadsOrTails"}: the value of one alias is the
\* key of another.
ChainedAliases == (W_flip :> W_echo) @@ (W_echo :> W_HeadsOrTails)

CallAliasTables == {NoAliases, SampleAliases, ChainedAliases}

CallNames ==
  {W_flip, W_Flip, W_echo, W_ECHO, W_headsortails, W_HeadsOrTails, W_pycache,
   W_nope}

\* The state at the call of run with one chain.
InitCall ==
  /\ running = TRUE
  /\ pc = "run"
  /\ line = <<>>
  /\ chains \in {<<Chain("COMMAND", n)>> : n \in CallNames}
  /\ idx = 1
  /\ results = <<>>
  /\ console = <<>>
  /\ log = <<>>
  /\ lineEnd = "none"
  /\ tokens = <<>>
  /\ error = NoError
  /\ last_status = TRUE
  /\ aliases \in CallAliasTables
  /\ cfgFun \in FunFlagValues
  /\ PluginsIdle

SpecCall == InitCall /\ [][NextRun]_vars

(***************************************************************************)
(* Texts given to Tokenizer().tokenize and Parser(tokens).parse()          *)
(***************************************************************************)
\* echo hello --flag
L_echo_hello_flag ==
  <<"e","c","h","o"," ","h","e","l","l","o"," ","-","-","f","l","a","g">>
\* echo a@b
L_echo_at ==
  <<"e","c","h","o"," ","a","@","b">>
\* cmd --opt=value pos1
L_opt_eq_value ==
  <<"c","m","d"," ","-","-","o","p","t","=","v","a","l","u","e"," ","p","o",
    "s","1">>
\* cmd --flag value
L_flag_value ==
  <<"c","m","d"," ","-","-","f","l","a","g"," ","v","a","l","u","e">>
\* cmd -f "a b" pos1
L_flag_string ==
  <<"c","m","d"," ","-","f"," ","\"","a"," ","b","\""," ","p","o","s","1">>
\* cmd --a --b;x
L_two_flags ==
  <<"c","m","d"," ","-","-","a"," ","-","-","b",";","x">>
\* cmd pos1 --flag
L_pos_then_flag ==
  <<"c","m","d"," ","p","o","s","1"," ","-","-","f","l","a","g">>
\* cmdA && cmdB
L_cmdA_and_cmdB ==
  <<"c","m","d","A"," ","&","&"," ","c","m","d","B">>
\* cmdA || cmdB
L_cmdA_or_cmdB ==
  <<"c","m","d","A"," ","|","|"," ","c","m","d","B">>
\* cmdA ; cmdB
L_cmdA_semi_cmdB ==
  <<"c","m","d","A"," ",";"," ","c","m","d","B">>
\* cmd "-k=v" --a
L_quoted_key ==
  <<"c","m","d"," ","\"","-","k","=","v","\""," ","-","-","a">>
\* cmd 'k=v w'
L_quoted_pair ==
  <<"c","m","d"," ","'","k","=","v"," ","w","'">>
\* echo "a\"b" 'c\'d'
L_escaped_quote ==
  <<"e","c","h","o"," ","\"","a","\\","\"","b","\""," ","'","c","\\","'",
    "d","'">>
\* --flag cmd
L_flag_first ==
  <<"-","-","f","l","a","g"," ","c","m","d">>
\* "cmd" x
L_string_first ==
  <<"\"","c","m","d","\""," ","x">>
\* a ;; b
L_double_semi ==
  <<"a"," ",";",";"," ","b">>
\* cmd "k=v=w" pos1
L_two_equals ==
  <<"c","m","d"," ","\"","k","=","v","=","w","\""," ","p","o","s","1">>
\* cmd "a\"b"'c'
L_joined_strings ==
  <<"c","m","d"," ","\"","a","\\","\"","b","\"","'","c","'">>

ExampleLines ==
  {L_echo_hello_flag,
   L_echo_at,
   L_opt_eq_value,
   L_flag_value,
   L_flag_string,
   L_two_flags,
   L_pos_then_flag,
   L_cmdA_and_cmdB,
   L_cmdA_or_cmdB,
   L_cmdA_semi_cmdB,
   L_quoted_key,
   L_quoted_pair,
   L_escaped_quote,
   L_flag_first,
   L_string_first,
   L_double_semi,
   L_two_equals,
   L_joined_strings}

\* Texts are also made of at most MaxTextPieces pieces.
MaxTextPieces == 4

TextPieces ==
  {<<"a">>, <<"b">>, <<" ">>, <<"-">>, <<" ","-","f">>, <<"=">>, <<";">>,
   <<"&","&">>, <<"|","|">>, <<"\"">>, <<"'">>}

RECURSIVE TextsOf(_)
TextsOf(n) ==
  IF n = 0 THEN {<<>>}
  ELSE TextsOf(n - 1) \cup {l \o p : l \in TextsOf(n - 1), p \in TextPieces}

Texts == TextsOf(MaxTextPieces) \cup ExampleLines

\* The state at tokens = tokenizer.tokenize(text); Parser(tokens).parse().
InitParse ==
  /\ running = TRUE
  /\ pc = "tokenize"
  /\ line \in Texts
  /\ chains = <<>>
  /\ idx = 0
  /\ results = <<>>
  /\ console = <<>>
  /\ log = <<>>
  /\ lineEnd = "none"
  /\ tokens = <<>>
  /\ error = NoError
  /\ last_status = TRUE
  /\ aliases = NoAliases
  /\ cfgFun = "absent"
  /\ PluginsIdle

\* Parser.__init__: deque(tokens) runs the generator to its end; a
\* SyntaxError of the tokenizer leaves the constructor.
TokenizeText ==
  /\ pc = "tokenize"
  /\ UNCHANGED pluginVars
  /\ LET t == Tokenize(line) IN
     /\ tokens' = t.toks
     /\ error' = t.error
     /\ IF t.ok THEN pc' = "parse" /\ lineEnd' = "tokenized"
                ELSE pc' = "failed" /\ lineEnd' = "lexical"
  /\ UNCHANGED <<running, line, chains, idx, results, console, log, last_status,
                 aliases, cfgFun>>

\* parse(): the chains, or the SyntaxError of parse_command.
ParseTokens ==
  /\ pc = "parse"
  /\ UNCHANGED pluginVars
  /\ LET p == Parse(tokens) IN
     /\ chains' = p.chains
     /\ error' = p.error
     /\ IF p.ok THEN pc' = "parsed" /\ lineEnd' = "parsed"
                ELSE pc' = "failed" /\ lineEnd' = "syntax"
  /\ UNCHANGED <<running, line, idx, results, console, log, tokens, last_status,
                 aliases, cfgFun>>

NextParse == TokenizeText \/ ParseTokens

SpecParse == InitParse /\ [][NextParse]_vars

(***************************************************************************)
(* Parser(tokens).parse() on any list of tokens, one iteration of the      *)
(* while loop of parse at a time; idx is the position of self.current      *)
(***************************************************************************)
MaxTokens == 4

TokenValues ==
  {Token("COMMAND", <<"a">>), Token("STRING", <<"s">>), Token("FLAG", <<"-", "v">>),
   Token("SEMI", <<";">>), Token("AND", <<"&", "&">>), Token("MISMATCH", <<"@">>),
   EOFToken}

TokenLists == UNION {[1..n -> TokenValues] : n \in 0..MaxTokens}

\* Parser.__init__: the deque holds the list and next_token made its first
\* token the current one.
InitTokens ==
  /\ running = TRUE
  /\ pc = "parse"
  /\ line = <<>>
  /\ chains = <<>>
  /\ idx = 1
  /\ results = <<>>
  /\ console = <<>>
  /\ log = <<>>
  /\ lineEnd = "none"
  /\ tokens \in TokenLists
  /\ error = NoError
  /\ last_status = TRUE
  /\ aliases = NoAliases
  /\ cfgFun = "absent"
  /\ PluginsIdle

\* One pass through the body of the while loop: parse_chain, and the
\* next_token that takes a separator; the SyntaxError of parse_command leaves
\* parse.
ParseLoopBody ==
  /\ pc = "parse"
  /\ TokAt(tokens, idx).type # "EOF"
  /\ UNCHANGED pluginVars
  /\ LET c == ParseCommand(tokens, idx) IN
     IF ~c.ok
       THEN /\ pc' = "failed" /\ lineEnd' = "syntax"
            /\ error' = ExpectedCommand(c.errType)
            /\ chains' = <<>>
            /\ idx' = idx
       ELSE /\ chains' = Append(chains, ParseChain(c))
            /\ idx' = IF TokAt(tokens, c.next).type \in Separators
                        THEN c.next + 1 ELSE c.next
            /\ UNCHANGED <<pc, lineEnd, error>>
  /\ UNCHANGED <<running, line, results, console, log, tokens, last_status,
                 aliases, cfgFun>>

\* The while test finds EOF: return chains.
ParseLoopExit ==
  /\ pc = "parse"
  /\ TokAt(tokens, idx).type = "EOF"
  /\ UNCHANGED pluginVars
  /\ pc' = "parsed" /\ lineEnd' = "parsed"
  /\ UNCHANGED <<running, line, chains, idx, results, console, log, tokens, error,
                 last_status, aliases, cfgFun>>

NextTokens == ParseLoopBody \/ ParseLoopExit

SpecTokens == InitTokens /\ [][NextTokens]_vars

(***************************************************************************)
(* The chat server (commands/chat.py, Chat.start_server)                   *)
(*                                                                         *)
(* The host loop, the accept_clients thread and the handle_client threads  *)
(* share running, clients and the sockets without a lock; a step of the    *)
(* model is one access to them, and the threads' steps interleave freely.  *)
(***************************************************************************)
\* list.remove(x) on a list that holds x: the first occurrence goes.
RemoveFirst(s, x) ==
  LET k == CHOOSE k \in DOMAIN s : s[k] = x /\ \A j \in 1..(k - 1) : s[j] # x
  IN SubSeq(s, 1, k - 1) \o SubSeq(s, k + 1, Len(s))

\* cli.send(...): TRUE when it returns, FALSE when it raises.  It raises on
\* a socket that was closed here; once the remote end is gone it raises or
\* the data is still taken by the buffer.
SendOutcomes(cli) ==
  IF sockets[cli] # "open" THEN {FALSE}
  ELSE IF peer[cli] THEN {TRUE}
  ELSE {TRUE, FALSE}

\* The for loop of broadcast goes to its next element, or broadcast prints
\* the line and returns.
Advance(f) ==
  [f EXCEPT !.i = f.i + 1,
            !.st = IF f.i + 1 > Len(f.snap) THEN "returned" ELSE "send"]

\* The socket the for loop of the broadcast of thread t is at.
Cli(t) == bc[t].snap[bc[t].i]

\* Chat.execute reached start_server: the server socket listens, the
\* accept_clients thread was started and the host loop is at input().
InitChat ==
  /\ CoreInPlugin
  /\ LlmIdle
  /\ chat_running = TRUE
  /\ clients = <<>>
  /\ server = "listening"
  /\ sockets = [s \in Socks |-> "unconnected"]
  /\ peer = [s \in Socks |-> TRUE]
  /\ noticed = [s \in Socks |-> FALSE]
  /\ acceptor = "test"
  /\ at = [t \in Threads |-> IF t = Host THEN "input" ELSE "off"]
  /\ bc = [t \in Threads |-> NoFrame]
  /\ sd = [snap |-> <<>>, i |-> 0]

\* broadcast: if not running: return
BroadcastCheck(t) ==
  /\ bc[t].st = "check"
  /\ bc' = [bc EXCEPT ![t].st = IF chat_running THEN "snapshot" ELSE "returned"]
  /\ UNCHANGED <<chat_running, clients, server, sockets, peer, noticed, acceptor,
                 at, sd>>
  /\ UNCHANGED <<vars, llmVars>>

\* broadcast: for cli in clients[:] takes its copy of the list
BroadcastSnapshot(t) ==
  /\ bc[t].st = "snapshot"
  /\ bc' = [bc EXCEPT ![t] = [st |-> IF clients = <<>> THEN "returned" ELSE "send",
                              snap |-> clients, i |-> 1, sent |-> {}]]
  /\ UNCHANGED <<chat_running, clients, server, sockets, peer, noticed, acceptor,
                 at, sd>>
  /\ UNCHANGED <<vars, llmVars>>

\* broadcast: cli.send(payload.encode()) returns or raises
BroadcastSend(t) ==
  /\ bc[t].st = "send"
  /\ \E ok \in SendOutcomes(Cli(t)) :
       bc' = [bc EXCEPT ![t] =
                IF ok THEN Advance([@ EXCEPT !.sent = @ \cup {Cli(t)}])
                ELSE [@ EXCEPT !.st = "remove"]]
  /\ UNCHANGED <<chat_running, clients, server, sockets, peer, noticed, acceptor,
                 at, sd>>
  /\ UNCHANGED <<vars, llmVars>>

\* broadcast, except Exception: clients.remove(cli), which raises
\* ValueError when cli is not in the list; nothing in broadcast catches it.
BroadcastRemove(t) ==
  /\ bc[t].st = "remove"
  /\ IF Cli(t) \in Range(clients)
       THEN /\ clients' = RemoveFirst(clients, Cli(t))
            /\ bc' = [bc EXCEPT ![t].st = "close"]
       ELSE /\ clients' = clients
            /\ bc' = [bc EXCEPT ![t].st = "raised"]
  /\ UNCHANGED <<chat_running, server, sockets, peer, noticed, acceptor, at, sd>>
  /\ UNCHANGED <<vars, llmVars>>

\* broadcast, except Exception: cli.close() in its own try
BroadcastClose(t) ==
  /\ bc[t].st = "close"
  /\ sockets' = [sockets EXCEPT ![Cli(t)] = "closed"]
  /\ bc' = [bc EXCEPT ![t] = Advance(@)]
  /\ UNCHANGED <<chat_running, clients, server, peer, noticed, acceptor, at, sd>>
  /\ UNCHANGED <<vars, llmVars>>

\* accept_clients: while running
AcceptTest ==
  /\ acceptor = "test"
  /\ acceptor' = IF chat_running THEN "accept" ELSE "done"
  /\ UNCHANGED <<chat_running, clients, server, sockets, peer, noticed, at, bc, sd>>
  /\ UNCHANGED <<vars, llmVars>>

\* accept_clients: server.accept() returns the next connection and the
\* handle_client thread of it is started.
AcceptClient ==
  /\ acceptor = "accept"
  /\ server = "listening"
  /\ \E s \in Socks :
       /\ sockets[s] = "unconnected"
       /\ \A r \in 1..(s - 1) : sockets[r] # "unconnected"
       /\ sockets' = [sockets EXCEPT ![s] = "open"]
       /\ at' = [at EXCEPT ![s] = "nick"]
  /\ acceptor' = "test"
  /\ UNCHANGED <<chat_running, clients, server, peer, noticed, bc, sd>>
  /\ UNCHANGED <<vars, llmVars>>

\* accept_clients: server.accept() raises on the closed socket: break
AcceptFails ==
  /\ acceptor = "accept"
  /\ server = "closed"
  /\ acceptor' = "done"
  /\ UNCHANGED <<chat_running, clients, server, sockets, peer, noticed, at, bc, sd>>
  /\ UNCHANGED <<vars, llmVars>>

\* The remote end of a connection goes away.
PeerLeaves(s) ==
  /\ sockets[s] # "unconnected"
  /\ peer[s]
  /\ peer' = [peer EXCEPT ![s] = FALSE]
  /\ UNCHANGED <<chat_running, clients, server, sockets, noticed, acceptor, at,
                 bc, sd>>
  /\ UNCHANGED <<vars, llmVars>>

\* handle_client: sock.recv returns the nickname (or nothing: Guest-n),
\* clients.append(sock), and broadcast of the join message is called.
HandlerRegister(s) ==
  /\ at[s] = "nick"
  /\ clients' = Append(clients, s)
  /\ at' = [at EXCEPT ![s] = "joined"]
  /\ bc' = [bc EXCEPT ![s] = EnterBroadcast]
  /\ UNCHANGED <<chat_running, server, sockets, peer, noticed, acceptor, sd>>
  /\ UNCHANGED <<vars, llmVars>>

\* handle_client and the host loop, when their broadcast call ended: a
\* return goes on after the call; the ValueError leaves the try block of
\* handle_client for its finally clause, leaves the finally clause and the
\* thread when it is raised there, and leaves the host loop and
\* start_server, which catch KeyboardInterrupt only.
AfterBroadcast(t) ==
  /\ at[t] \in {"joined", "relay", "left", "broadcast"}
  /\ bc[t].st \in {"returned", "raised"}
  /\ at' = [at EXCEPT ![t] =
              IF bc[t].st = "returned"
                THEN (IF @ = "left" THEN "close"
                      ELSE IF @ = "broadcast" THEN "input"
                      ELSE "loop")
              ELSE (IF @ = "left" THEN "died"
                    ELSE IF @ = "broadcast" THEN "raised"
                    ELSE "cleanup")]
  /\ bc' = [bc EXCEPT ![t] = NoFrame]
  /\ UNCHANGED <<chat_running, clients, server, sockets, peer, noticed, acceptor, sd>>
  /\ UNCHANGED <<vars, llmVars>>

\* handle_client: while running
HandlerLoop(s) ==
  /\ at[s] = "loop"
  /\ at' = [at EXCEPT ![s] = IF chat_running THEN "recv" ELSE "cleanup"]
  /\ UNCHANGED <<chat_running, clients, server, sockets, peer, noticed, acceptor,
                 bc, sd>>
  /\ UNCHANGED <<vars, llmVars>>

\* handle_client: sock.recv(1024) returns data, which is broadcast, or
\* returns nothing or raises, which both leave the loop.
HandlerRecv(s) ==
  /\ at[s] = "recv"
  /\ \/ /\ sockets[s] = "open" /\ peer[s]
        /\ at' = [at EXCEPT ![s] = "relay"]
        /\ bc' = [bc EXCEPT ![s] = EnterBroadcast]
     \/ /\ sockets[s] = "closed" \/ ~peer[s]
        /\ at' = [at EXCEPT ![s] = "cleanup"]
        /\ bc' = bc
  /\ UNCHANGED <<chat_running, clients, server, sockets, peer, noticed, acceptor, sd>>
  /\ UNCHANGED <<vars, llmVars>>

\* handle_client, finally: if sock in clients
HandlerCleanup(s) ==
  /\ at[s] = "cleanup"
  /\ IF s \in Range(clients)
       THEN at' = [at EXCEPT ![s] = "remove"] /\ bc' = bc
       ELSE /\ at' = [at EXCEPT ![s] = "left"]
            /\ bc' = [bc EXCEPT ![s] = EnterBroadcast]
  /\ UNCHANGED <<chat_running, clients, server, sockets, peer, noticed, acceptor, sd>>
  /\ UNCHANGED <<vars, llmVars>>

\* handle_client, finally: clients.remove(sock), and broadcast of the leave
\* message is called; the ValueError of remove ends the thread.
HandlerRemove(s) ==
  /\ at[s] = "remove"
  /\ IF s \in Range(clients)
       THEN /\ clients' = RemoveFirst(clients, s)
            /\ at' = [at EXCEPT ![s] = "left"]
            /\ bc' = [bc EXCEPT ![s] = EnterBroadcast]
       ELSE /\ clients' = clients
            /\ at' = [at EXCEPT ![s] = "died"]
            /\ bc' = bc
  /\ UNCHANGED <<chat_running, server, sockets, peer, noticed, acceptor, sd>>
  /\ UNCHANGED <<vars, llmVars>>

\* handle_client, finally: sock.close() in its own try
HandlerClose(s) ==
  /\ at[s] = "close"
  /\ sockets' = [sockets EXCEPT ![s] = "closed"]
  /\ at' = [at EXCEPT ![s] = "done"]
  /\ UNCHANGED <<chat_running, clients, server, peer, noticed, acceptor, bc, sd>>
  /\ UNCHANGED <<vars, llmVars>>

\* The host loop: input() returns a message that is not blank and
\* broadcast is called.
HostInput ==
  /\ at[Host] = "input"
  /\ at' = [at EXCEPT ![Host] = "broadcast"]
  /\ bc' = [bc EXCEPT ![Host] = EnterBroadcast]
  /\ UNCHANGED <<chat_running, clients, server, sockets, peer, noticed, acceptor, sd>>
  /\ UNCHANGED <<vars, llmVars>>

\* The host loop: KeyboardInterrupt in the main thread, at input() or in
\* the broadcast it called: except KeyboardInterrupt: pass
HostInterrupt ==
  /\ at[Host] \in {"input", "broadcast"}
  /\ at' = [at EXCEPT ![Host] = "stop"]
  /\ bc' = [bc EXCEPT ![Host] = NoFrame]
  /\ UNCHANGED <<chat_running, clients, server, sockets, peer, noticed, acceptor, sd>>
  /\ UNCHANGED <<vars, llmVars>>

\* The host loop: input() raises EOFError, which nothing in start_server
\* catches.
HostEOF ==
  /\ at[Host] = "input"
  /\ at' = [at EXCEPT ![Host] = "eof"]
  /\ UNCHANGED <<chat_running, clients, server, sockets, peer, noticed, acceptor,
                 bc, sd>>
  /\ UNCHANGED <<vars, llmVars>>

\* running = False
HostStop ==
  /\ at[Host] = "stop"
  /\ chat_running' = FALSE
  /\ at' = [at EXCEPT ![Host] = "shutdown"]
  /\ UNCHANGED <<clients, server, sockets, peer, noticed, acceptor, bc, sd>>
  /\ UNCHANGED <<vars, llmVars>>

\* The shutdown: for cli in clients[:] takes its copy of the list
ShutdownSnapshot ==
  /\ at[Host] = "shutdown"
  /\ sd' = [snap |-> clients, i |-> 1]
  /\ at' = [at EXCEPT ![Host] = IF clients = <<>> THEN "clear" ELSE "notify"]
  /\ UNCHANGED <<chat_running, clients, server, sockets, peer, noticed, acceptor, bc>>
  /\ UNCHANGED <<vars, llmVars>>

\* The shutdown: cli.send of the notice, in its own try
ShutdownNotify ==
  /\ at[Host] = "notify"
  /\ \E ok \in SendOutcomes(sd.snap[sd.i]) :
       noticed' = [noticed EXCEPT ![sd.snap[sd.i]] = ok]
  /\ at' = [at EXCEPT ![Host] = "hangup"]
  /\ UNCHANGED <<chat_running, clients, server, sockets, peer, acceptor, bc, sd>>
  /\ UNCHANGED <<vars, llmVars>>

\* The shutdown: cli.shutdown(SHUT_RDWR); cli.close(), in their own try
ShutdownClose ==
  /\ at[Host] = "hangup"
  /\ sockets' = [sockets EXCEPT ![sd.snap[sd.i]] = "closed"]
  /\ sd' = [sd EXCEPT !.i = sd.i + 1]
  /\ at' = [at EXCEPT ![Host] = IF sd.i + 1 > Len(sd.snap) THEN "clear" ELSE "notify"]
  /\ UNCHANGED <<chat_running, clients, server, peer, noticed, acceptor, bc>>
  /\ UNCHANGED <<vars, llmVars>>

\* The shutdown: clients.clear()
ShutdownClear ==
  /\ at[Host] = "clear"
  /\ clients' = <<>>
  /\ at' = [at EXCEPT ![Host] = "server"]
  /\ UNCHANGED <<chat_running, server, sockets, peer, noticed, acceptor, bc, sd>>
  /\ UNCHANGED <<vars, llmVars>>

\* The shutdown: server.shutdown(SHUT_RDWR) in its own try; server.close();
\* start_server returns.
ShutdownServer ==
  /\ at[Host] = "server"
  /\ server' = "closed"
  /\ at' = [at EXCEPT ![Host] = "returned"]
  /\ UNCHANGED <<chat_running, clients, sockets, peer, noticed, acceptor, bc, sd>>
  /\ UNCHANGED <<vars, llmVars>>

NextChat ==
  \/ \E t \in Threads : BroadcastCheck(t)
  \/ \E t \in Threads : BroadcastSnapshot(t)
  \/ \E t \in Threads : BroadcastSend(t)
  \/ \E t \in Threads : BroadcastRemove(t)
  \/ \E t \in Threads : BroadcastClose(t)
  \/ \E t \in Threads : AfterBroadcast(t)
  \/ AcceptTest
  \/ AcceptClient
  \/ AcceptFails
  \/ \E s \in Socks : PeerLeaves(s)
  \/ \E s \in Socks : HandlerRegister(s)
  \/ \E s \in Socks : HandlerLoop(s)
  \/ \E s \in Socks : HandlerRecv(s)
  \/ \E s \in Socks : HandlerCleanup(s)
  \/ \E s \in Socks : HandlerRemove(s)
  \/ \E s \in Socks : HandlerClose(s)
  \/ HostInput
  \/ HostInterrupt
  \/ HostEOF
  \/ HostStop
  \/ ShutdownSnapshot
  \/ ShutdownNotify
  \/ ShutdownClose
  \/ ShutdownClear
  \/ ShutdownServer

SpecChat == InitChat /\ [][NextChat]_<<vars, pluginVars>>

(***************************************************************************)
(* The llm command (commands/llm.py)                                       *)
(***************************************************************************)
W_info == <<"i","n","f","o">>

W_INFO == <<"I","N","F","O">>

\* The positional arguments LLM.execute is called with.
LlmArgs == {<<>>, <<W_info>>, <<W_INFO>>, <<W_hello>>, <<W_hello, W_info>>}

\* What the server answered with status 200: the answer in the expected
\* place, a body that is no JSON, an object without "choices", an object
\* with an empty "choices", a JSON value that is no object, or an object
\* whose content is null.
Bodies ==
  {"answer", "not_json", "no_choices", "empty_choices", "not_object",
   "null_content"}

\* What requests.post and raise_for_status leave in resp: nothing when post
\* raised (no connection, timeout), a response of status 4xx or 5xx, or a
\* response of status 200.
PostOutcomes ==
  {Unbound, Response("http_error", "not_json")}
    \cup {Response("ok", b) : b \in Bodies}

\* The exception of resp.json()["choices"][0]["message"]["content"], ""
\* when there is none.
ContentError(body) ==
  IF body = "not_json" THEN "JSONDecodeError"
  ELSE IF body = "no_choices" THEN "KeyError"
  ELSE IF body = "empty_choices" THEN "IndexError"
  ELSE IF body = "not_object" THEN "TypeError"
  ELSE ""

\* except (KeyError, IndexError, ValueError); JSONDecodeError is a ValueError
ParseCatches == {"KeyError", "IndexError", "JSONDecodeError"}

\* The except clause of the request: the prints after the spinner was
\* joined, and how _do_query ends; resp.text reads the local resp.
RequestFailed(r) ==
  IF r.bound
    THEN [prints |-> <<"error_during_request", "resp_text">>, ret |-> Return(1)]
    ELSE [prints |-> <<"error_during_request">>, ret |-> Raise("UnboundLocalError")]

\* The statements after the spinner was joined, for a response of status
\* 200: the content is read, and printed or reported.
ReadAnswer(r) ==
  LET e == ContentError(r.body) IN
  IF e = ""
    THEN IF r.body = "null_content"
           THEN [prints |-> <<>>, ret |-> Raise("AttributeError")]
           ELSE [prints |-> <<"answer">>, ret |-> Return(0)]
  ELSE IF e \in ParseCatches
    THEN IF r.body = "not_json"
           THEN [prints |-> <<"unexpected_format">>, ret |-> Raise("JSONDecodeError")]
           ELSE [prints |-> <<"unexpected_format", "json_dump">>, ret |-> Return(1)]
  ELSE [prints |-> <<>>, ret |-> Raise(e)]

\* The Executor called LLM().execute(*args).
InitLlm ==
  /\ CoreInPlugin
  /\ ChatIdle
  /\ llm_args \in LlmArgs
  /\ llm_pc = "execute"
  /\ spinner = "off"
  /\ spinner_done = FALSE
  /\ spins = 0
  /\ resp = Unbound
  /\ llm_out = <<>>
  /\ llm_ret = NoReturn

\* execute: the usage text, llm info, or _do_query up to the start of the
\* spinner thread.
LlmExecute ==
  /\ llm_pc = "execute"
  /\ IF llm_args = <<>>
       THEN /\ llm_out' = <<"usage">>
            /\ llm_ret' = Return(0)
            /\ llm_pc' = "ended"
            /\ spinner' = spinner
     ELSE IF Lower(llm_args[1]) = W_info
       THEN /\ llm_out' = <<"model">>
            /\ llm_ret' = Return(0)
            /\ llm_pc' = "ended"
            /\ spinner' = spinner
     ELSE /\ llm_out' = llm_out
          /\ llm_ret' = llm_ret
          /\ llm_pc' = "post"
          /\ spinner' = "test"
  /\ UNCHANGED <<llm_args, spinner_done, spins, resp>>
  /\ UNCHANGED <<vars, chatVars>>

\* spinner: if spinner_done.is_set(): break
SpinnerTest ==
  /\ spinner = "test"
  /\ spinner' = IF spinner_done THEN "clear" ELSE "write"
  /\ UNCHANGED <<llm_args, llm_pc, spinner_done, spins, resp, llm_out, llm_ret>>
  /\ UNCHANGED <<vars, chatVars>>

\* spinner: one frame is written, and time.sleep(0.1)
SpinnerWrite ==
  /\ spinner = "write"
  /\ spins' = IF spins < MaxSpins THEN spins + 1 ELSE spins
  /\ spinner' = "test"
  /\ UNCHANGED <<llm_args, llm_pc, spinner_done, resp, llm_out, llm_ret>>
  /\ UNCHANGED <<vars, chatVars>>

\* spinner: the line is cleared and the thread ends
SpinnerClear ==
  /\ spinner = "clear"
  /\ llm_out' = Append(llm_out, "clear_line")
  /\ spinner' = "done"
  /\ UNCHANGED <<llm_args, llm_pc, spinner_done, spins, resp, llm_ret>>
  /\ UNCHANGED <<vars, chatVars>>

\* _do_query: requests.post and raise_for_status end; spinner_done.set()
\* is the first statement on both ways.
LlmPost ==
  /\ llm_pc = "post"
  /\ resp' \in PostOutcomes
  /\ spinner_done' = TRUE
  /\ llm_pc' = "join"
  /\ UNCHANGED <<llm_args, spinner, spins, llm_out, llm_ret>>
  /\ UNCHANGED <<vars, chatVars>>

\* _do_query: spinner_thread.join() returns, and the rest of the except
\* clause or of the function runs.
LlmFinish ==
  /\ llm_pc = "join"
  /\ spinner = "done"
  /\ LET end == IF resp.bound /\ resp.status = "ok"
                  THEN ReadAnswer(resp) ELSE RequestFailed(resp)
     IN
     /\ llm_out' = llm_out \o end.prints
     /\ llm_ret' = end.ret
  /\ llm_pc' = "ended"
  /\ UNCHANGED <<llm_args, spinner, spinner_done, spins, resp>>
  /\ UNCHANGED <<vars, chatVars>>

NextLlm ==
  \/ LlmExecute
  \/ SpinnerTest
  \/ SpinnerWrite
  \/ SpinnerClear
  \/ LlmPost
  \/ LlmFinish

SpecLlm == InitLlm /\ [][NextLlm]_<<vars, pluginVars>>

(***************************************************************************)
(* Properties                                                              *)
(***************************************************************************)
Last(q) == q[Len(q)]

Returned(e) == e.kind = "return"

\* The module name execute_command imports for a recorded call.
ModuleOf(e) == Lower(e.cmd_name)

\* Lookup found a module that holds a command class.
PluginFound(e) ==
  ModuleOf(e) \in DOMAIN CommandsPackage /\ CommandsPackage[ModuleOf(e)].hasClass

\* The text is exit or quit once trimmed, in any letter case.
IsExitLine(text) == Lower(Strip(text)) \in {W_exit, W_quit}

\* C1 as stated: for every parsed line that no interrupt cut short, the
\* number of chains attempted equals the number of chains parsed.
C1_AllChainsAttempted ==
  lineEnd \in {"completed", "notfound"} => Len(results) = Len(chains)

\* C1 as amended: the chains of a parsed line are attempted in encounter
\* order and a chain that returns false (or true) never stops the line; the
\* for loop is left early only by a chain that raises: command-not-found for
\* a name no module exists for, or an interrupt during the plugin call.  A
\* line that ends without a raise has attempted every chain.
C1_OnlyARaiseStopsTheLine ==
  /\ \A i \in DOMAIN results : i <= Len(chains) /\ results[i].cmd = chains[i].cmd
  /\ \A i \in DOMAIN results : i < Len(results) => Returned(results[i])
  /\ lineEnd = "executing" =>
       /\ pc = "exec" /\ idx = Len(results) + 1 /\ idx <= Len(chains)
       /\ \A i \in DOMAIN results : Returned(results[i])
  /\ lineEnd = "completed" =>
       /\ Len(results) = Len(chains)
       /\ \A i \in DOMAIN results : Returned(results[i])
  /\ (results # <<>> /\ Returned(Last(results))) => lineEnd \in {"executing", "completed"}
  /\ lineEnd = "notfound" =>
       /\ results # <<>>
       /\ Last(results).exc = "ModuleNotFoundError"
       /\ ModuleOf(Last(results)) \notin DOMAIN CommandsPackage
  /\ (lineEnd = "interrupt" /\ results # <<>>) =>
       /\ Last(results).exc = "KeyboardInterrupt"
       /\ Last(results).executed = 1
  /\ lineEnd # "error"

\* A line of two chains has completed although its first chain returned false.
C1_Witness ==
  /\ lineEnd = "completed" /\ pc = "loop"
  /\ Len(chains) = 2 /\ Len(results) = 2
  /\ results[1].value = FALSE

\* C2 as stated: whenever lookup finds no plugin (no module of that name, or
\* a module that holds no command class), execute_command raises
\* command-not-found and returns no boolean.
C2_NoPluginRaisesNotFound ==
  \A i \in DOMAIN results :
    ~PluginFound(results[i]) =>
      results[i].kind = "raise" /\ results[i].exc = "ModuleNotFoundError"

\* C3 as stated: nothing raised during a plugin invocation leaves
\* execute_command.
C3_NothingEscapes ==
  \A i \in DOMAIN results :
    ModuleOf(results[i]) \in DOMAIN CommandsPackage => Returned(results[i])

\* C3 as amended: an error derived from Exception that a found plugin raises
\* while it is instantiated or executed is caught and execute_command returns
\* false with one error message; the only thing that leaves the call during a
\* plugin invocation is KeyboardInterrupt.
C3_ExceptionsAreCaught ==
  \A i \in DOMAIN results :
    LET e == results[i] IN
    /\ (e.outcome.t = "raise" /\ e.outcome.exc = "RuntimeError") =>
         Returned(e) /\ e.value = FALSE /\ e.prints = <<"error_running">>
    /\ (ModuleOf(e) \in DOMAIN CommandsPackage /\ ~PluginFound(e)) =>
         Returned(e) /\ e.value = FALSE /\ e.prints = <<"error_running">>
    /\ (ModuleOf(e) \in DOMAIN CommandsPackage /\ ~Returned(e)) =>
         e.exc = "KeyboardInterrupt" /\ e.outcome.exc = "KeyboardInterrupt"

\* A plugin raised an Exception and the call returned false.
C3_Witness ==
  \E i \in DOMAIN results :
    /\ results[i].outcome.t = "raise" /\ results[i].outcome.exc = "RuntimeError"
    /\ results[i].value = FALSE /\ Returned(results[i])

\* C4: a found, non-gated plugin's execute is called exactly once; exit code
\* 0 gives true and no failure message, any other exit code gives false and
\* exactly one failure message.
C4_ExitCodeDecidesStatus ==
  \A i \in DOMAIN results :
    LET e == results[i] IN
    /\ e.executed \in {0, 1} /\ e.instantiated = e.executed
    /\ (PluginFound(e) /\ ~(CommandsPackage[ModuleOf(e)].fun /\ e.flag = "false")) =>
         e.executed = 1
    /\ (e.outcome.t = "ret" /\ e.outcome.code = 0) =>
         Returned(e) /\ e.value = TRUE /\ e.prints = <<>>
    /\ (e.outcome.t = "ret" /\ e.outcome.code # 0) =>
         Returned(e) /\ e.value = FALSE /\ e.prints = <<"failed_exit_code">>

\* A plugin returned a negative exit code and the call reported failure once.
C4_Witness ==
  \E i \in DOMAIN results :
    /\ results[i].outcome.t = "ret" /\ results[i].outcome.code < 0
    /\ results[i].value = FALSE /\ results[i].prints = <<"failed_exit_code">>

\* C5: a fun plugin with fun_commands false is neither instantiated nor
\* executed and the call returns true; a plugin that is not fun, or any plugin
\* with fun_commands true or absent, has its execute called.
C5_FunGate ==
  \A i \in DOMAIN results :
    LET e == results[i] IN
    PluginFound(e) =>
      IF CommandsPackage[ModuleOf(e)].fun /\ e.flag = "false"
        THEN Returned(e) /\ e.value = TRUE /\ e.instantiated = 0 /\ e.executed = 0
        ELSE e.executed = 1

\* The fun plugin was reached through its alias with the flag off, and
\* again, in the same line, after the flag was switched on.
C5_Witness ==
  /\ Len(results) = 2
  /\ results[1].cmd = W_flip /\ results[1].flag = "false"
  /\ results[1].executed = 0 /\ results[1].value = TRUE
  /\ results[2].cmd = W_flip /\ results[2].flag = "absent"
  /\ results[2].executed = 1

\* The chains of the argument of run that run treats as commands.
IsCommandChain(c) == "type" \notin DOMAIN c \/ c.type = "COMMAND"

CommandPositions == {i \in DOMAIN chains : IsCommandChain(chains[i])}

\* C6: run returns the status of the last COMMAND chain it executed, whatever
\* the earlier statuses were; chains of another type are not executed and
\* leave the status alone; without any COMMAND chain run returns true.
C6_RunReturnsLastStatus ==
  pc = "returned" =>
    /\ Len(results) = Cardinality(CommandPositions)
    /\ \A i \in CommandPositions :
         results[Cardinality({j \in CommandPositions : j <= i})].cmd = chains[i].cmd
    /\ last_status = (IF results = <<>> THEN TRUE ELSE Last(results).value)
    /\ Cardinality({k \in DOMAIN console : console[k] = "unsupported_chain"})
         = Len(chains) - Cardinality(CommandPositions)

\* run returned true after a failed command, a successful command and a
\* chain of another type.
C6_Witness ==
  /\ pc = "returned" /\ last_status = TRUE
  /\ Len(chains) = 2 /\ Len(results) = 2
  /\ results[1].value = FALSE /\ results[2].value = TRUE

\* C7: resolve_alias gives the table's value for an alias and the name
\* itself otherwise, and the alias table is never modified.
C7_ResolveAlias ==
  /\ [](\A i \in DOMAIN results :
          IF results[i].cmd \in DOMAIN aliases
            THEN results[i].cmd_name = aliases[results[i].cmd]
            ELSE results[i].cmd_name = results[i].cmd)
  /\ [][aliases' = aliases]_vars

\* One line resolved an alias and left a name that is no alias unchanged.
C7_Witness ==
  /\ Len(results) = 2 /\ aliases = SampleAliases
  /\ results[1].cmd = W_flip /\ results[1].cmd_name = W_HeadsOrTails
  /\ results[2].cmd = W_echo /\ results[2].cmd_name = W_echo

PipelineErrors == {"lexical", "syntax", "notfound"}

\* After a reported pipeline error the loop is Running and reads a line.
AfterPipelineError ==
  lineEnd \in PipelineErrors => running' = TRUE /\ pc' = "input"

\* C8: a lexical error, a syntax error or command-not-found is caught by the
\* loop: it is reported, the loop stays Running and its next step is to read
\* a line; no exception ever leaves CLI.run.
C8_ErrorsKeepTheLoopRunning ==
  /\ [](/\ pc # "crashed"
        /\ (~IsExitLine(line) /\ ~Tokenize(Strip(line)).ok) => lineEnd = "lexical"
        /\ (~IsExitLine(line) /\ Tokenize(Strip(line)).ok
              /\ ~Parse(Tokenize(Strip(line)).toks).ok) => lineEnd = "syntax"
        /\ (results # <<>> /\ Last(results).exc = "ModuleNotFoundError") =>
              lineEnd = "notfound"
        /\ lineEnd \in PipelineErrors =>
              running /\ pc = "loop" /\ Last(console) = "cli_error")
  /\ [][AfterPipelineError]_vars

\* The second chain of a line was not found and the loop is still Running.
C8_Witness ==
  /\ lineEnd = "notfound" /\ Len(results) = 2
  /\ running /\ pc = "loop"

\* Once running is false CLI.run returns and nothing else happens.
StoppedIsTerminal ==
  ~running =>
    /\ pc' = "stopped"
    /\ UNCHANGED <<running, line, chains, idx, results, console, log, lineEnd,
                   tokens, error>>

\* C9: the loop starts Running; exit or quit, trimmed and in any letter case,
\* stops it without tokenizing, parsing or executing the line; nothing else
\* typed stops it; once stopped it reads no line and executes no command.
C9_ExitStopsTheLoop ==
  /\ running = TRUE /\ pc = "loop"
  /\ [](/\ IsExitLine(line) =>
             /\ lineEnd = "exit" /\ ~running
             /\ chains = <<>> /\ results = <<>> /\ console = <<"goodbye">>
        /\ ~running => lineEnd \in {"exit", "interrupt"}
        /\ lineEnd = "exit" => IsExitLine(line))
  /\ [][StoppedIsTerminal]_vars

\* Quit in mixed case between blanks stopped the loop.
C9_Witness ==
  /\ pc = "stopped" /\ lineEnd = "exit"
  /\ line = <<" ">> \o W_QuIt \o <<" ">>

\* C10: an interrupt is handled like the input exit: the special-command
\* handler sets running to false and says goodbye, and the loop stops.
C10_InterruptIsExit ==
  \A how \in {"interrupt", "exit"} :
    lineEnd = how =>
      /\ ~running /\ pc \in {"loop", "stopped"}
      /\ Last(console) = "goodbye" /\ Last(log) = "exiting"

\* The interrupt arrived during the plugin call of a line's second chain.
C10_Witness ==
  /\ lineEnd = "interrupt" /\ pc = "stopped"
  /\ Len(results) = 2 /\ Last(results).exc = "KeyboardInterrupt"

(***************************************************************************)
(* Properties of the tokenizer and the parser on their own                 *)
(***************************************************************************)
\* tokenize ran to its end without a lexical error.
Tokenized == pc \in {"parse", "parsed"} \/ (pc = "failed" /\ lineEnd = "syntax")

BeginsWithDash(s) == s # <<>> /\ s[1] = "-"

\* C11: when tokenize completes without a lexical error the tokens it
\* yielded are finitely many (at most one per character, and the end), the
\* last one is EOF and no other one is.
C11_EndsWithOneEOF ==
  Tokenized =>
    /\ tokens # <<>>
    /\ Len(tokens) <= Len(line) + 1
    /\ Last(tokens) = EOFToken
    /\ \A i \in 1..(Len(tokens) - 1) : tokens[i].type # "EOF"

\* A line of three words was tokenized into four tokens.
C11_Witness ==
  /\ pc = "parse" /\ line = L_echo_hello_flag
  /\ Len(tokens) = 4 /\ tokens[4].type = "EOF"

\* C12 as stated: echo hello --flag gives Command echo, Command hello,
\* Flag flag and EOF; no flag token's value begins with a dash; no
\* WHITESPACE or MISMATCH token is yielded.
C12_FlagValueWithoutDash ==
  pc # "tokenize" =>
    /\ line = L_echo_hello_flag =>
         tokens = <<Token("COMMAND", W_echo), Token("COMMAND", W_hello),
                    Token("FLAG", W_flag), EOFToken>>
    /\ \A i \in DOMAIN tokens :
         /\ tokens[i].type = "FLAG" => ~BeginsWithDash(tokens[i].value)
         /\ tokens[i].type \notin {"WHITESPACE", "MISMATCH"}

\* C12 as amended: echo hello --flag gives Command echo, Command hello,
\* Flag --flag and EOF; a flag token's value is the matched text, one or two
\* dashes followed by word characters; no WHITESPACE or MISMATCH token is
\* yielded for any text.
C12_FlagValueKeepsDashes ==
  pc # "tokenize" =>
    /\ line = L_echo_hello_flag =>
         tokens = <<Token("COMMAND", W_echo), Token("COMMAND", W_hello),
                    Token("FLAG", <<"-", "-">> \o W_flag), EOFToken>>
    /\ \A i \in DOMAIN tokens :
         /\ tokens[i].type = "FLAG" =>
              LET v == tokens[i].value
                  name == LStripDash(v)
              IN /\ BeginsWithDash(v)
                 /\ name # <<>> /\ Range(name) \subseteq WordChars
                 /\ Len(v) - Len(name) \in {1, 2}
         /\ tokens[i].type \notin {"WHITESPACE", "MISMATCH"}

\* echo hello --flag was tokenized and its flag token holds --flag.
C12_Witness ==
  /\ pc = "parse" /\ line = L_echo_hello_flag
  /\ tokens[3] = Token("FLAG", <<"-", "-">> \o W_flag)

\* Characters some pattern other than the catch-all matches wherever they
\* stand, when the text holds no quote, & or |.
PlainChars == WhiteSpace \cup CommandChars \cup {";"}

NoQuoteOrPair(text) == Range(text) \cap {"\"", "'", "&", "|", "\\"} = {}

\* C13: a lexical error names the character the scan stopped at and its
\* zero-based offset; only the catch-all matches there; everything before
\* it was tokenized without error and the tokens yielded are exactly those
\* of the text before it; in a text without quotes and operator pairs the
\* error is at the leftmost character that is no blank, word character,
\* dash or semicolon, and there is an error whenever there is one.
C13_LexicalErrorNamesFirstMismatch ==
  /\ lineEnd = "lexical" =>
       /\ error.kind = "lexical"
       /\ error.pos \in 0..(Len(line) - 1)
       /\ error.char = line[error.pos + 1]
       /\ MatchAt(line, error.pos + 1).type = "MISMATCH"
       /\ Tokenize(SubSeq(line, 1, error.pos)).ok
       /\ Tokenize(SubSeq(line, 1, error.pos)).toks = Append(tokens, EOFToken)
       /\ chains = <<>>
  /\ (pc # "tokenize" /\ NoQuoteOrPair(line)) =>
       IF Range(line) \subseteq PlainChars
         THEN lineEnd # "lexical"
         ELSE /\ lineEnd = "lexical"
              /\ line[error.pos + 1] \notin PlainChars
              /\ \A j \in 1..error.pos : line[j] \in PlainChars

\* echo a@b stopped at the @, offset 6, after two tokens.
C13_Witness ==
  /\ pc = "failed" /\ line = L_echo_at
  /\ error = UnexpectedCharacter("@", 6)
  /\ tokens = <<Token("COMMAND", W_echo), Token("COMMAND", <<"a">>)>>

\* tokenize and parse have both ended, one way or the other.
ParseEnded == pc \in {"parsed", "failed"}

\* C14 as stated: cmd --opt=value pos1 parses to one chain, cmd with the
\* named argument opt = value and the positional argument pos1.
C14_InlineKeyValue ==
  (ParseEnded /\ line = L_opt_eq_value) =>
    /\ lineEnd = "parsed"
    /\ chains = <<[type |-> "COMMAND", cmd |-> W_cmd, args |-> <<W_pos1>>,
                   kwargs |-> (W_opt :> StrVal(W_value))]>>

\* The chain a token belongs to: one more than the separators before it.
ChainOf(i) == 1 + Cardinality({j \in 1..(i - 1) : tokens[j].type \in Separators})

\* The token is the first of a command.
IsHead(i) == i = 1 \/ tokens[i - 1].type \in Separators

\* The token follows a flag and is Command- or String-kind.
IsFlagValue(i) ==
  i > 1 /\ tokens[i - 1].type = "FLAG" /\ tokens[i].type \in ValueTypes

\* The token is an argument of its own: Command- or String-kind, not the
\* command name and not the value of a flag.
IsArgument(i) == tokens[i].type \in ValueTypes /\ ~IsHead(i) /\ ~IsFlagValue(i)

\* The key token i binds, when it binds one.
KeyOf(i) ==
  IF tokens[i].type = "FLAG" THEN LStripDash(tokens[i].value)
  ELSE SplitKey(tokens[i].value)

Binds(i) ==
  tokens[i].type = "FLAG" \/ (IsArgument(i) /\ HasEq(tokens[i].value))

\* No later token of the same chain binds the key of token i again.
LastBinding(i) ==
  \A j \in (i + 1)..Len(tokens) :
    (ChainOf(j) = ChainOf(i) /\ Binds(j)) => KeyOf(j) # KeyOf(i)

\* The tokens of chain c that are positional arguments, and their values in
\* the order of the line.
PositionalTokens(c) ==
  {i \in DOMAIN tokens : ChainOf(i) = c /\ IsArgument(i) /\ ~HasEq(tokens[i].value)}

PositionalValues(c) ==
  [n \in 1..Cardinality(PositionalTokens(c)) |->
     tokens[CHOOSE i \in PositionalTokens(c) :
              Cardinality({j \in PositionalTokens(c) : j <= i}) = n].value]

\* C15: in a parsed line a flag followed by a Command- or String-kind token
\* is bound to that token's literal (the last binding of a key stands), and
\* the token is consumed: the positional arguments of every chain are
\* exactly the argument tokens that are no flag's value; cmd --flag value
\* gives flag = value and no positional argument.
C15_FlagTakesNextValue ==
  pc = "parsed" =>
    /\ \A i \in 1..(Len(tokens) - 1) :
         (tokens[i].type = "FLAG" /\ tokens[i + 1].type \in ValueTypes) =>
           /\ KeyOf(i) \in DOMAIN chains[ChainOf(i)].kwargs
           /\ LastBinding(i) =>
                chains[ChainOf(i)].kwargs[KeyOf(i)] = StrVal(tokens[i + 1].value)
    /\ \A c \in DOMAIN chains : chains[c].args = PositionalValues(c)
    /\ line = L_flag_value =>
         chains = <<[type |-> "COMMAND", cmd |-> W_cmd, args |-> <<>>,
                     kwargs |-> (W_flag :> StrVal(W_value))]>>

\* cmd -f "a b" pos1 was parsed: f took the string, pos1 stayed positional.
C15_Witness ==
  /\ pc = "parsed" /\ line = L_flag_string
  /\ chains[1].kwargs = (<<"f">> :> StrVal(<<"a", " ", "b">>))
  /\ chains[1].args = <<W_pos1>>

\* C16: in a parsed line a flag followed by another flag, a separator or the
\* end of input is bound to true (the last binding of a key stands), and the
\* following token is still processed: a flag binds its own key, a separator
\* or the end closes the chain, so that every command name after a separator
\* opens a chain of its own.
C16_BareFlagIsTrue ==
  pc = "parsed" =>
    /\ \A i \in 1..(Len(tokens) - 1) :
         (tokens[i].type = "FLAG" /\ tokens[i + 1].type \notin ValueTypes) =>
           /\ KeyOf(i) \in DOMAIN chains[ChainOf(i)].kwargs
           /\ LastBinding(i) => chains[ChainOf(i)].kwargs[KeyOf(i)] = TrueVal
           /\ tokens[i + 1].type = "FLAG" =>
                KeyOf(i + 1) \in DOMAIN chains[ChainOf(i)].kwargs
           /\ tokens[i + 1].type \in Separators =>
                \/ tokens[i + 2].type = "EOF" /\ Len(chains) = ChainOf(i)
                \/ /\ Len(chains) > ChainOf(i)
                   /\ chains[ChainOf(i) + 1].cmd = tokens[i + 2].value
           /\ tokens[i + 1].type = "EOF" => Len(chains) = ChainOf(i)
    /\ Len(chains) =
         Cardinality({i \in DOMAIN tokens : IsHead(i) /\ tokens[i].type = "COMMAND"})

\* cmd --a --b;x was parsed: both flags are true and x is a second chain.
C16_Witness ==
  /\ pc = "parsed" /\ line = L_two_flags
  /\ chains[1].kwargs = (<<"a">> :> TrueVal) @@ (<<"b">> :> TrueVal)
  /\ Len(chains) = 2 /\ chains[2].cmd = <<"x">>

\* The text of each separator.
SeparatorTexts == {<<";">>, <<"&", "&">>, <<"|", "|">>}

\* The text with its n-th separator token from pos on replaced by sep.
RECURSIVE SwapFrom(_, _, _, _)
SwapFrom(text, pos, n, sep) ==
  IF pos > Len(text) THEN <<>>
  ELSE
    LET m == MatchAt(text, pos) IN
    IF m.type = "MISMATCH" THEN SubSeq(text, pos, Len(text))
    ELSE IF m.type \in {"AND", "OR", "SEMI"}
      THEN IF n = 1 THEN sep \o SubSeq(text, m.end, Len(text))
           ELSE SubSeq(text, pos, m.end - 1) \o SwapFrom(text, m.end, n - 1, sep)
    ELSE SubSeq(text, pos, m.end - 1) \o SwapFrom(text, m.end, n, sep)

SwapSeparator(text, n, sep) == SwapFrom(text, 1, n, sep)

SeparatorCount == Cardinality({i \in DOMAIN tokens : tokens[i].type \in Separators})

\* C17: whichever separator token of a tokenized line is replaced by
\* whichever other separator, the line still tokenizes, parsing succeeds or
\* fails as before and gives the same chains in the same order; a chain
\* holds its type, name and arguments and nothing of the separator; cmdA &&
\* cmdB gives the chain cmdA and then the chain cmdB.
C17_SeparatorsAreInterchangeable ==
  (ParseEnded /\ lineEnd # "lexical") =>
    /\ \A n \in 1..SeparatorCount : \A sep \in SeparatorTexts :
         LET t == Tokenize(SwapSeparator(line, n, sep)) IN
         /\ t.ok
         /\ Parse(t.toks).ok = (lineEnd = "parsed")
         /\ Parse(t.toks).chains = chains
    /\ \A c \in DOMAIN chains :
         /\ DOMAIN chains[c] = {"type", "cmd", "args", "kwargs"}
         /\ chains[c].type = "COMMAND"
    /\ line = L_cmdA_and_cmdB =>
         chains = <<Chain("COMMAND", W_cmdA), Chain("COMMAND", W_cmdB)>>

\* cmdA || cmdB was parsed into the two chains cmdA and cmdB.
C17_Witness ==
  /\ pc = "parsed" /\ line = L_cmdA_or_cmdB
  /\ SwapSeparator(line, 1, <<";">>) = L_cmdA_semi_cmdB
  /\ chains = <<Chain("COMMAND", W_cmdA), Chain("COMMAND", W_cmdB)>>

\* The heads that are no command name: a flag, a quoted string or a
\* separator where a command has to start.
BadHeads ==
  {i \in DOMAIN tokens : IsHead(i) /\ tokens[i].type \notin {"COMMAND", "EOF"}}

\* C20: once the text is tokenized, parsing fails exactly when some command
\* starts with a token that is not Command-kind; the syntax error names the
\* kind of the first such token, and parse returns no chain.
C20_CommandMustStartWithCommand ==
  (ParseEnded /\ lineEnd # "lexical") =>
    IF BadHeads = {}
      THEN lineEnd = "parsed" /\ error = NoError
      ELSE /\ lineEnd = "syntax"
           /\ error = ExpectedCommand(
                tokens[CHOOSE i \in BadHeads : \A j \in BadHeads : i <= j].type)
           /\ chains = <<>>

\* "cmd" x failed: a quoted string stands where the command name has to.
C20_Witness ==
  /\ pc = "failed" /\ line = L_string_first
  /\ error = ExpectedCommand("STRING") /\ chains = <<>>

\* C19 as stated: no named-argument key of a parsed line begins with a dash.
C19_NoKeyBeginsWithDash ==
  pc = "parsed" =>
    \A c \in DOMAIN chains : \A k \in DOMAIN chains[c].kwargs : ~BeginsWithDash(k)

\* C19 as amended: the key a flag token binds is the flag's text without
\* its leading dashes and never begins with a dash; a key that begins with a
\* dash comes from a quoted string argument "key=value", whose text before
\* the first = is taken as it stands.
C19_FlagKeysHaveNoDash ==
  pc = "parsed" =>
    /\ \A i \in DOMAIN tokens :
         tokens[i].type = "FLAG" =>
           /\ ~BeginsWithDash(KeyOf(i))
           /\ KeyOf(i) \in DOMAIN chains[ChainOf(i)].kwargs
           /\ tokens[i].value \in {<<"-">> \o KeyOf(i), <<"-", "-">> \o KeyOf(i)}
    /\ \A c \in DOMAIN chains : \A k \in DOMAIN chains[c].kwargs :
         BeginsWithDash(k) =>
           \E i \in DOMAIN tokens :
             /\ ChainOf(i) = c /\ tokens[i].type = "STRING"
             /\ IsArgument(i) /\ HasEq(tokens[i].value) /\ KeyOf(i) = k

\* cmd "-k=v" --a was parsed: the quoted key kept its dash, the flag's did not.
C19_Witness ==
  /\ pc = "parsed" /\ line = L_quoted_key
  /\ chains[1].kwargs = (<<"-", "k">> :> StrVal(<<"v">>)) @@ (<<"a">> :> TrueVal)

(***************************************************************************)
(* The canonical form of an invocation: the name, then the named arguments, *)
(* then the positional arguments.  The true-valued named arguments are     *)
(* written first, as --key; a string-valued one is written as --key and    *)
(* its quoted value; a positional argument is written quoted.              *)
(***************************************************************************)
\* The value between quotes q is read back as one string token.
Quotable(v, q) == QuoteClose(<<q>> \o v \o <<q>>, 2, q) = Len(v) + 2

Quoted(v) ==
  IF Quotable(v, "\"") THEN <<"\"">> \o v \o <<"\"">> ELSE <<"'">> \o v \o <<"'">>

RECURSIVE WriteNamed(_, _)
WriteNamed(kwargs, keys) ==
  IF keys = {} THEN <<>>
  ELSE LET k == CHOOSE x \in keys : TRUE IN
       <<" ", "-", "-">> \o k
         \o (IF kwargs[k].bool THEN <<>> ELSE <<" ">> \o Quoted(kwargs[k].str))
         \o WriteNamed(kwargs, keys \ {k})

RECURSIVE WritePositional(_)
WritePositional(args) ==
  IF args = <<>> THEN <<>>
  ELSE <<" ">> \o Quoted(Head(args)) \o WritePositional(Tail(args))

Serialize(inv) ==
  inv.cmd
    \o WriteNamed(inv.kwargs, {k \in DOMAIN inv.kwargs : inv.kwargs[k].bool})
    \o WriteNamed(inv.kwargs, {k \in DOMAIN inv.kwargs : ~inv.kwargs[k].bool})
    \o WritePositional(inv.args)

\* Tokenizing and parsing the canonical form gives the invocation back.
RoundTrips(inv) ==
  LET t == Tokenize(Serialize(inv)) IN
  /\ t.ok
  /\ Parse(t.toks).ok
  /\ Parse(t.toks).chains = <<inv>>

\* C18 as stated: every line that parses to one invocation round-trips.
C18_EveryInvocationRoundTrips ==
  (pc = "parsed" /\ Len(chains) = 1) => RoundTrips(chains[1])

\* Every key can be written as a flag.
KeysAreWords(inv) ==
  \A k \in DOMAIN inv.kwargs : k # <<>> /\ Range(k) \subseteq WordChars

\* The last named argument written is true-valued and a positional
\* argument follows it.
BareFlagBeforePositional(inv) ==
  /\ inv.args # <<>>
  /\ DOMAIN inv.kwargs # {}
  /\ \A k \in DOMAIN inv.kwargs : inv.kwargs[k].bool

\* C18 as amended: a line that parses to one invocation round-trips when
\* every named-argument key is a nonempty run of word characters and the
\* invocation does not have positional arguments together with named
\* arguments that are all true; when the keys are words and it does have
\* them, the first positional argument comes back as the value of the last
\* flag written.
C18_RoundTripOfWritableInvocations ==
  (pc = "parsed" /\ Len(chains) = 1 /\ KeysAreWords(chains[1])) =>
    IF BareFlagBeforePositional(chains[1])
      THEN /\ Tokenize(Serialize(chains[1])).ok
           /\ ~RoundTrips(chains[1])
      ELSE RoundTrips(chains[1])

\* cmd -f "a b" pos1 was parsed and its canonical form gives it back.
C18_Witness ==
  /\ pc = "parsed" /\ line = L_flag_string
  /\ Serialize(chains[1]) =
       W_cmd \o <<" ", "-", "-", "f", " ", "\"", "a", " ", "b", "\"", " ", "\"">>
             \o W_pos1 \o <<"\"">>
  /\ RoundTrips(chains[1])

(***************************************************************************)
(* Properties of the interactive loop, continued                           *)
(***************************************************************************)
\* C21: a line with a lexical or a syntax error anywhere executes nothing,
\* also when complete commands stand before the error; the first
\* execute_command call of a line comes after the whole text was tokenized
\* to its end and all of it parsed.
C21_ErrorMeansNothingRuns ==
  /\ lineEnd \in {"lexical", "syntax"} => results = <<>> /\ chains = <<>>
  /\ BadHeads # {} => lineEnd = (IF error.kind = "lexical" THEN "lexical" ELSE "syntax")
  /\ (NoQuoteOrPair(line) /\ ~(Range(line) \subseteq PlainChars)) => lineEnd = "lexical"
  /\ results # <<>> =>
       /\ tokens = Tokenize(Strip(line)).toks
       /\ Last(tokens).type = "EOF"
       /\ BadHeads = {}
       /\ Len(chains) =
            Cardinality({i \in DOMAIN tokens : IsHead(i) /\ tokens[i].type = "COMMAND"})

\* echo;; ended in a syntax error and echo was not executed.
C21_Witness ==
  /\ lineEnd = "syntax" /\ pc = "loop"
  /\ line = W_echo \o <<";", ";">>
  /\ results = <<>> /\ error = ExpectedCommand("SEMI")

\* What the user is shown about an error of the pipeline: the import error
\* execute_command prints and the error line the loop prints.
ErrorReports ==
  {k \in DOMAIN console : console[k] \in {"import_error", "cli_error"}}

\* C22 as stated: a lexical error, a syntax error or command-not-found gives
\* exactly one report, that of the loop.
C22_OneReportPerError ==
  lineEnd \in PipelineErrors =>
    Cardinality(ErrorReports) = 1 /\ Last(console) = "cli_error"

\* C22 as amended: a lexical or a syntax error is caught and reported by the
\* loop only, once; command-not-found is caught first in execute_command,
\* which prints the import error, logs it and raises again, and then by the
\* loop, which prints its error line: the user is shown two reports.
C22_NotFoundIsReportedTwice ==
  /\ lineEnd \in {"lexical", "syntax"} =>
       console = <<"cli_error">> /\ log = <<"user_input">>
  /\ lineEnd = "notfound" =>
       /\ Len(console) >= 2
       /\ console[Len(console) - 1] = "import_error"
       /\ console[Len(console)] = "cli_error"
       /\ Cardinality(ErrorReports) = 2
       /\ Last(log) = "error_loading"
       /\ Last(results).prints = <<"import_error">>

\* A command was not found and the console holds the two reports.
C22_Witness ==
  /\ lineEnd = "notfound" /\ Len(results) = 1
  /\ console = <<"import_error", "cli_error">>

\* The call did not reach the plugin: the fun gate returned before it.
WasGated(e) == Returned(e) /\ e.executed = 0

\* C23 as stated: fun_commands is fixed when the Executor is constructed, so
\* one value of it decides the gate of every call.
C23_FlagFixedAtConstruction ==
  \E v \in FunFlagValues :
    \A i \in DOMAIN results :
      PluginFound(results[i]) =>
        WasGated(results[i]) =
          (CommandsPackage[ModuleOf(results[i])].fun /\ v = "false")

\* C23 as amended: the alias table is the one read at construction; the
\* gate of each call is decided by the fun_commands value the configuration
\* file holds at the time of that call.
C23_FlagReadAtEachCall ==
  /\ aliases \in AliasTables
  /\ \A i \in DOMAIN results :
       LET e == results[i] IN
       /\ e.cmd_name = (IF e.cmd \in DOMAIN aliases THEN aliases[e.cmd] ELSE e.cmd)
       /\ PluginFound(e) =>
            WasGated(e) = (CommandsPackage[ModuleOf(e)].fun /\ e.flag = "false")

\* The fun plugin was executed and then, after the configuration was
\* edited, gated in the same line.
C23_Witness ==
  /\ Len(results) = 2
  /\ results[1].cmd = W_flip /\ results[1].flag = "true" /\ results[1].executed = 1
  /\ results[2].cmd = W_flip /\ results[2].flag = "false" /\ WasGated(results[2])

RECURSIVE PrintsOf(_)
PrintsOf(rs) == IF rs = <<>> THEN <<>> ELSE Head(rs).prints \o PrintsOf(Tail(rs))

\* C30: a chain whose command is not found is the last chain of its line to
\* be attempted: the call raised, the line ended there, the chains before it
\* returned and what they printed stands before the two error reports.
C30_NotFoundStopsTheLine ==
  \A i \in DOMAIN results :
    ModuleOf(results[i]) \notin DOMAIN CommandsPackage =>
      /\ i = Len(results)
      /\ results[i].kind = "raise" /\ results[i].exc = "ModuleNotFoundError"
      /\ \A j \in 1..(i - 1) : Returned(results[j])
      /\ \/ pc = "raised"
         \/ /\ pc = "loop" /\ lineEnd = "notfound"
            /\ idx = i /\ results[i].cmd = chains[i].cmd
            /\ console = PrintsOf(results) \o <<"cli_error">>

\* flip, no alias and no module, was not found and the echo after it was
\* not attempted.
C30_Witness ==
  /\ lineEnd = "notfound" /\ aliases = NoAliases
  /\ line = W_flip \o <<";">> \o W_echo
  /\ Len(chains) = 2 /\ Len(results) = 1

(***************************************************************************)
(* Properties of the tokenizer and the parser, continued                   *)
(***************************************************************************)
\* C24: in a parsed line no positional argument contains "="; an argument
\* token whose literal contains "=" is split once, at its first "=", and
\* bound as a named argument (the last binding of a key stands); the
\* positional arguments are the remaining argument tokens in the order of
\* the line.
C24_NoPositionalHasEquals ==
  pc = "parsed" =>
    /\ \A c \in DOMAIN chains : \A n \in DOMAIN chains[c].args :
         ~HasEq(chains[c].args[n])
    /\ \A i \in DOMAIN tokens :
         (IsArgument(i) /\ HasEq(tokens[i].value)) =>
           LET v == tokens[i].value IN
           \E k \in DOMAIN v :
             /\ v[k] = "=" /\ ~HasEq(SubSeq(v, 1, k - 1))
             /\ SubSeq(v, 1, k - 1) \in DOMAIN chains[ChainOf(i)].kwargs
             /\ LastBinding(i) =>
                  chains[ChainOf(i)].kwargs[SubSeq(v, 1, k - 1)] =
                    StrVal(SubSeq(v, k + 1, Len(v)))
    /\ \A c \in DOMAIN chains : chains[c].args = PositionalValues(c)

\* cmd "k=v=w" pos1 was parsed: k is bound to v=w and pos1 is positional.
C24_Witness ==
  /\ pc = "parsed" /\ line = L_two_equals
  /\ chains[1].kwargs = (<<"k">> :> StrVal(<<"v", "=", "w">>))
  /\ chains[1].args = <<W_pos1>>

\* The text is one or two dashes and then word characters only.
IsFlagText(s) ==
  \E n \in {1, 2} :
    /\ Len(s) > n
    /\ \A j \in 1..n : s[j] = "-"
    /\ \A j \in (n + 1)..Len(s) : s[j] \in WordChars

\* A flag could be matched at the start of the text.
StartsAsFlag(s) ==
  \/ Len(s) >= 2 /\ s[1] = "-" /\ s[2] \in WordChars
  \/ Len(s) >= 3 /\ s[1] = "-" /\ s[2] = "-" /\ s[3] \in WordChars

RECURSIVE ValuesOf(_)
ValuesOf(toks) ==
  IF toks = <<>> THEN <<>> ELSE Head(toks).value \o ValuesOf(Tail(toks))

\* C25: the first pattern in the order of the list wins, not the longest
\* match: -a-b is the flags -a and -b, a-b is one bare word; a Flag-kind
\* token is dashes and word characters and stops before a dash that a bare
\* word would have taken; no bare word starts where a flag matches; the
\* tokens of a text without blanks and quotes cover it without gap.
C25_FirstPatternWins ==
  Tokenized =>
    /\ line = <<"-", "a", "-", "b">> =>
         tokens = <<Token("FLAG", <<"-", "a">>), Token("FLAG", <<"-", "b">>), EOFToken>>
    /\ line = <<"a", "-", "b">> =>
         tokens = <<Token("COMMAND", <<"a", "-", "b">>), EOFToken>>
    /\ \A i \in DOMAIN tokens :
         /\ tokens[i].type = "FLAG" => IsFlagText(tokens[i].value)
         /\ tokens[i].type = "COMMAND" =>
              /\ tokens[i].value # <<>>
              /\ Range(tokens[i].value) \subseteq CommandChars
              /\ ~StartsAsFlag(tokens[i].value)
         /\ tokens[i].type = "AND" => tokens[i].value = <<"&", "&">>
         /\ tokens[i].type = "OR" => tokens[i].value = <<"|", "|">>
         /\ tokens[i].type = "SEMI" => tokens[i].value = <<";">>
         /\ tokens[i].type \notin {"WHITESPACE", "MISMATCH"}
    /\ Range(line) \cap (WhiteSpace \cup {"\"", "'"}) = {} => ValuesOf(tokens) = line

\* -a-b was tokenized as two flags.
C25_Witness ==
  /\ Tokenized /\ line = <<"-", "a", "-", "b">>
  /\ Len(tokens) = 3 /\ tokens[1].type = "FLAG" /\ tokens[2].type = "FLAG"

Quotes == {"\"", "'"}

\* The text a token was matched from, q being the quote of a string.
SourceText(tok, q) ==
  IF tok.type = "STRING" THEN <<q>> \o tok.value \o <<q>> ELSE tok.value

RECURSIVE SourceTexts(_, _, _)
SourceTexts(toks, qs, i) ==
  IF i > Len(toks) THEN <<>>
  ELSE SourceText(toks[i], qs[i]) \o SourceTexts(toks, qs, i + 1)

\* C26: the value of a String-kind token is the matched text without its
\* first and its last character: in a text without blanks, putting a quote
\* on both sides of every string value gives the text back; a backslash
\* before a quote stays in the value with the quote.
C26_StringValueIsTextBetweenQuotes ==
  Tokenized =>
    /\ Range(line) \cap WhiteSpace = {} =>
         \E qs \in [DOMAIN tokens -> Quotes] : SourceTexts(tokens, qs, 1) = line
    /\ line = L_escaped_quote =>
         tokens = <<Token("COMMAND", W_echo),
                    Token("STRING", <<"a", "\\", "\"", "b">>),
                    Token("STRING", <<"c", "\\", "'", "d">>),
                    EOFToken>>
    /\ line = L_joined_strings =>
         tokens = <<Token("COMMAND", W_cmd),
                    Token("STRING", <<"a", "\\", "\"", "b">>),
                    Token("STRING", <<"c">>),
                    EOFToken>>

\* echo "a\"b" 'c\'d' was tokenized: both strings keep backslash and quote.
C26_Witness ==
  /\ Tokenized /\ line = L_escaped_quote
  /\ Len(tokens) = 4
  /\ tokens[2] = Token("STRING", <<"a", "\\", "\"", "b">>)
  /\ tokens[3].value = <<"c", "\\", "'", "d">>

(***************************************************************************)
(* Properties of the chat server                                           *)
(***************************************************************************)
\* C27 as stated: however the broadcast calls of the threads and the
\* cleanup of the handlers interleave, no broadcast call raises, and when a
\* call returns the message was sent on every socket of its copy of the
\* list except those whose send failed, which are out of the list and
\* closed.
C27_BroadcastIsSafe ==
  \A t \in Threads :
    /\ bc[t].st # "raised"
    /\ bc[t].st = "returned" =>
         \A k \in DOMAIN bc[t].snap :
           \/ bc[t].snap[k] \in bc[t].sent
           \/ bc[t].snap[k] \notin Range(clients) /\ sockets[bc[t].snap[k]] = "closed"

\* C28 as stated: once the shutdown that follows the interrupt of the host
\* loop has finished, running is false, the listening socket and every
\* accepted client socket are closed, every client that is still connected
\* was sent the notice, and the list of clients is empty.
C28_ShutdownIsGraceful ==
  at[Host] = "returned" =>
    /\ ~chat_running
    /\ server = "closed"
    /\ clients = <<>>
    /\ \A s \in Socks : sockets[s] # "open"
    /\ \A s \in Socks : (sockets[s] # "unconnected" /\ peer[s]) => noticed[s]

(***************************************************************************)
(* Properties of the llm command                                           *)
(***************************************************************************)
\* _do_query was entered: the spinner thread was started.
Queried == spinner # "off"

\* C29 as stated: _do_query returns 1 and does not raise when the request
\* failed, with or without a response, returns 1 when the response cannot
\* be read, and returns 0 only after the answer was printed.
C29_QueryReturnsStatus ==
  (llm_pc = "ended" /\ Queried) =>
    /\ (~resp.bound \/ resp.status = "http_error") => llm_ret = Return(1)
    /\ (resp.bound /\ resp.status = "ok" /\ resp.body # "answer") =>
         llm_ret = Return(1)
    /\ llm_ret = Return(0) => "answer" \in Range(llm_out)

(***************************************************************************)
(* Properties of the interactive loop: exit among other words, end of      *)
(* input, blank lines                                                      *)
(***************************************************************************)
\* The recorded call was given the name exit or quit, in any letter case.
NamedExit(e) == Lower(e.cmd) \in {W_exit, W_quit}

\* C31: only a line that is exit or quit once trimmed is handled as the
\* special command; exit or quit with arguments or among other chains goes
\* through tokenizer, parser and executor: the chains before it have run,
\* the name is resolved and looked up like any other, and, no module of
\* that name existing, the line ends with command-not-found and the loop
\* is Running.
C31_ExitOnlyAsWholeLine ==
  /\ lineEnd = "exit" => IsExitLine(line)
  /\ \A i \in DOMAIN results :
       NamedExit(results[i]) =>
         /\ ~IsExitLine(line)
         /\ results[i].cmd = chains[i].cmd
         /\ results[i].cmd_name = ResolveAlias(aliases, results[i].cmd)
         /\ \A j \in 1..(i - 1) : Returned(results[j])
         /\ ModuleOf(results[i]) \notin DOMAIN CommandsPackage
         /\ results[i].exc = "ModuleNotFoundError"
         /\ lineEnd = "notfound" /\ running /\ pc = "loop"

\* echo;exit ran echo, looked exit up as a command and did not stop.
C31_Witness ==
  /\ line = W_echo \o <<";">> \o W_exit
  /\ Len(results) = 2
  /\ Returned(results[1]) /\ results[1].executed = 1
  /\ NamedExit(results[2]) /\ results[2].exc = "ModuleNotFoundError"
  /\ running /\ pc = "loop"

\* After end of input the loop is Running and its next step reads again.
AfterEndOfInput ==
  lineEnd = "eof" => running' = TRUE /\ pc' = "input"

\* C32: end of input on the input stream is caught like the error of a
\* line: it is reported, nothing is executed, the loop stays Running and
\* its next step is to read again; the loop is Stopped only after exit,
\* quit or an interrupt, and no exception leaves CLI.run.
C32_EndOfInputKeepsTheLoopRunning ==
  /\ [](/\ lineEnd = "eof" =>
             /\ running /\ pc = "loop"
             /\ console = <<"cli_error">> /\ results = <<>>
        /\ pc = "stopped" => lineEnd \in {"exit", "interrupt"}
        /\ pc # "crashed")
  /\ [][AfterEndOfInput]_vars

\* input() raised EOFError and the loop is at its test again, Running.
C32_Witness ==
  /\ lineEnd = "eof" /\ pc = "loop" /\ running
  /\ console = <<"cli_error">> /\ log = <<>>

\* A line was read in this iteration.
LineRead == log # <<>> /\ log[1] = "user_input"

\* C33: a line that is empty or all blanks gives the one token EOF and no
\* chain; no plugin is called, nothing is printed, no error is raised and
\* the loop is Running.
C33_BlankLineDoesNothing ==
  (LineRead /\ \A k \in DOMAIN line : line[k] \in WhiteSpace) =>
    /\ tokens = <<EOFToken>>
    /\ chains = <<>> /\ results = <<>>
    /\ console = <<>> /\ error = NoError
    /\ lineEnd = "completed"
    /\ running /\ pc \in {"loop", "input"}

\* A line of two blanks was read and the loop is back at its test.
C33_Witness ==
  /\ LineRead /\ line = <<" ", " ">>
  /\ tokens = <<EOFToken>> /\ lineEnd = "completed" /\ pc = "loop"

(***************************************************************************)
(* Properties of the parser: where a separator may stand                   *)
(***************************************************************************)
\* The first token is a separator.
LeadingSeparator == tokens[1].type \in Separators

\* Two separators stand next to each other.
AdjacentSeparators ==
  \E i \in 1..(Len(tokens) - 1) :
    tokens[i].type \in Separators /\ tokens[i + 1].type \in Separators

\* The last token before EOF is a separator.
TrailingSeparator ==
  Len(tokens) >= 2 /\ tokens[Len(tokens) - 1].type \in Separators

\* C34: one separator after the last chain is accepted, and the chains are
\* those before it (a ; gives the one chain a); a separator at the start
\* of the line or next to another separator is a syntax error, and parse
\* returns no chain.
C34_SeparatorPlacement ==
  (Tokenized /\ ParseEnded) =>
    /\ (LeadingSeparator \/ AdjacentSeparators) =>
         /\ pc = "failed" /\ lineEnd = "syntax"
         /\ chains = <<>> /\ error.kind = "syntax"
    /\ (TrailingSeparator /\ ~LeadingSeparator /\ ~AdjacentSeparators /\ BadHeads = {}) =>
         /\ pc = "parsed"
         /\ Len(chains) =
              Cardinality({i \in DOMAIN tokens : tokens[i].type \in Separators})
    /\ line = <<"a", " ", ";">> =>
         /\ pc = "parsed"
         /\ chains = <<[type |-> "COMMAND", cmd |-> <<"a">>, args |-> <<>>,
                        kwargs |-> NoKwargs]>>
    /\ line = <<";", " ", "a">> =>
         pc = "failed" /\ chains = <<>> /\ error = ExpectedCommand("SEMI")
    /\ line = L_double_semi =>
         pc = "failed" /\ chains = <<>> /\ error = ExpectedCommand("SEMI")

\* a ; was parsed to one chain.
C34_Witness ==
  /\ pc = "parsed" /\ line = <<"a", " ", ";">>
  /\ TrailingSeparator /\ Len(chains) = 1 /\ chains[1].cmd = <<"a">>

(***************************************************************************)
(* Properties of one execute_command call                                  *)
(***************************************************************************)
\* The module of the resolved name exists and holds no command class.
ModuleWithoutClass(e) ==
  ModuleOf(e) \in DOMAIN CommandsPackage /\ ~CommandsPackage[ModuleOf(e)].hasClass

RanPlugin(e) == Returned(e) /\ e.executed = 1

\* C36: the alias table is looked up once, with the name as it was typed:
\* the value of an alias is not looked up again (with flip -> echo and
\* echo -> HeadsOrTails, flip runs echo, which is not gated), a name that
\* differs from a key in letter case only is not aliased, and the module
\* imported is that of the resolved name in lower case.
C36_AliasLookupIsSingleAndExact ==
  \A i \in DOMAIN results :
    LET e == results[i] IN
    /\ e.cmd \in DOMAIN aliases => e.cmd_name = aliases[e.cmd]
    /\ e.cmd \notin DOMAIN aliases => e.cmd_name = e.cmd
    /\ (e.exc = "ModuleNotFoundError") = (Lower(e.cmd_name) \notin DOMAIN CommandsPackage)
    /\ (aliases = ChainedAliases /\ e.cmd = W_flip) =>
         e.cmd_name = W_echo /\ (RanPlugin(e) \/ e.exc = "KeyboardInterrupt")
    /\ (aliases = ChainedAliases /\ e.cmd = W_ECHO) =>
         e.cmd_name = W_ECHO /\ (RanPlugin(e) \/ e.exc = "KeyboardInterrupt")
    /\ (aliases # NoAliases /\ e.cmd = W_Flip) =>
         e.cmd_name = W_Flip /\ e.exc = "ModuleNotFoundError"
    /\ (aliases = SampleAliases /\ e.cmd = W_flip /\ e.flag = "false") =>
         e.cmd_name = W_HeadsOrTails /\ WasGated(e)

\* With flip -> echo and echo -> HeadsOrTails, flip ran the plugin echo
\* while fun commands were disabled.
C36_Witness ==
  /\ aliases = ChainedAliases /\ Len(results) = 1
  /\ results[1].cmd = W_flip /\ results[1].cmd_name = W_echo
  /\ results[1].flag = "false" /\ RanPlugin(results[1])

(***************************************************************************)
(* Properties of parse on any token list                                   *)
(***************************************************************************)
\* The position of the first EOF token of a list; Len + 1 when it has none.
FirstEOF(toks) ==
  IF \E i \in DOMAIN toks : toks[i].type = "EOF"
    THEN CHOOSE i \in DOMAIN toks :
           toks[i].type = "EOF" /\ \A j \in 1..(i - 1) : toks[j].type # "EOF"
    ELSE Len(toks) + 1

\* The list up to its first EOF, with an EOF at its end.
Closed(toks) == Append(SubSeq(toks, 1, FirstEOF(toks) - 1), EOFToken)

\* The loop of parse is left.
ParseLeft == pc \in {"parsed", "failed"}

\* A step of the loop of parse moves the current token forward or leaves
\* the loop.
ParseAdvances == idx' > idx \/ (pc = "parse" /\ pc' \in {"parsed", "failed"})

\* C37: parse ends on every token list: a pass through its loop takes at
\* least one token or leaves the loop, and the current token never passes
\* the first EOF of the list, or the place after the last token of a list
\* without EOF; the result (the chains, or the SyntaxError) is that of the
\* list cut at its first EOF, and that of the list with an EOF appended
\* when it holds none.
C37_ParseTerminates ==
  /\ [](/\ idx <= FirstEOF(tokens)
        /\ Len(chains) < idx
        /\ ParseLeft =>
             LET p == Parse(Closed(tokens)) IN
             /\ (pc = "parsed") = p.ok
             /\ chains = p.chains
             /\ error = p.error)
  /\ [][ParseAdvances]_vars

\* A list without EOF, two commands around a separator: parse returned two
\* chains, the current token being the EOF made up after the last token.
C37_Witness ==
  /\ pc = "parsed" /\ Len(tokens) = 3 /\ Len(chains) = 2
  /\ \A i \in DOMAIN tokens : tokens[i].type # "EOF"
  /\ tokens[2].type \in Separators
  /\ idx = Len(tokens) + 1

====
